---- MODULE Spec2Model ----
(***************************************************************************)
(* A model of the favourites tracker and the collection pipeline of        *)
(* backend/db.py, backend/app.py and backend/refresh_favorites.py.         *)
(*                                                                         *)
(* The two SQLite tables are the variables favorites (a set of rows, the   *)
(* PRIMARY KEY being enforced by the INSERT of add_favorite) and           *)
(* view_history (the rows in insertion order, id = position).  Instants    *)
(* are whole hours since the start of the run: created_at and recorded_at  *)
(* are readings of the clock now, and the ISO-8601 strings the code        *)
(* compares order exactly as the instants they render (all are UTC with    *)
(* the same layout), so they are compared as numbers.  The wall clock      *)
(* never runs backwards here, and two readings taken with no Tick between  *)
(* them are equal.                                                         *)
(***************************************************************************)
EXTENDS Integers, Sequences, FiniteSets, TLC

VARIABLES
    now,            \* datetime.now(timezone.utc), in hours
    API_KEY,        \* os.getenv("API_KEY"): TRUE when configured
    favorites,      \* table favorites: set of rows
    view_history,   \* table view_history: sequence of rows, id = index
    DATA_FILE,      \* shorts.json: the records of the last collection saved
    PREVIEW_FILE,   \* shorts.preview.json
    connections,    \* the calls of db.py running side by side, each on its own
                    \* connection: what was called and the statement it is at
    result          \* the last operation: what it returned, the requests it sent
                    \* upstream, and what the upstream answered

vars == <<now, API_KEY, favorites, view_history, DATA_FILE, PREVIEW_FILE,
          connections, result>>

(***************************************************************************)
(* Program constants and the bounds of the model.                          *)
(***************************************************************************)
TRACKING_EXPIRY_DAYS == 14
HoursPerDay == 24
batch_size == 50
DefaultLimit == 100

MaxDays == 29        \* the clock stops advancing after this many days
MaxSnapshots == 2    \* rows of view_history in the small store

VideoIds == {1, 2}
Titles == {"t1"}
ViewCounts == {1000, 1500}
Limits == {0, 1, 2, DefaultLimit}

TrackingWindow == TRACKING_EXPIRY_DAYS * HoursPerDay
\* Between two operations the clock stands still, or advances by the
\* tracking window, or by the tracking window and one hour: ages fall on
\* both sides of the cutoff and exactly on it.
TickSteps == {TrackingWindow, TrackingWindow + 1}

\* A file that was never written, and a file holding a list of records
NoFile == [exists |-> FALSE, records |-> <<>>]
FileOf(records) == [exists |-> TRUE, records |-> records]

Min(a, b) == IF a <= b THEN a ELSE b
Range(s) == {s[i] : i \in DOMAIN s}

(***************************************************************************)
(* SQL: ORDER BY <column> DESC.  Rows that agree on the column come in an  *)
(* order SQL leaves unspecified, so a query has a set of possible answers. *)
(* The rows are split at a middle value of the column, the greater part    *)
(* coming first; rows that all agree come in any order.                    *)
(***************************************************************************)
RECURSIVE AnyOrder(_)
AnyOrder(rows) ==
    IF rows = {} THEN {<<>>}
    ELSE UNION {{<<r>> \o s : s \in AnyOrder(rows \ {r})} : r \in rows}

MiddleOf(keys) ==
    CHOOSE k \in keys : Cardinality({j \in keys : j > k}) = Cardinality(keys) \div 2

RECURSIVE OrderByCreatedAtDesc(_)
OrderByCreatedAtDesc(rows) ==
    LET keys == {r.created_at : r \in rows}
    IN  IF Cardinality(keys) <= 1 THEN AnyOrder(rows)
        ELSE LET mid == MiddleOf(keys)
             IN  {a \o b : a \in OrderByCreatedAtDesc({r \in rows : r.created_at > mid}),
                           b \in OrderByCreatedAtDesc({r \in rows : r.created_at <= mid})}

RECURSIVE OrderByRecordedAtDesc(_)
OrderByRecordedAtDesc(rows) ==
    LET keys == {r.recorded_at : r \in rows}
    IN  IF Cardinality(keys) <= 1 THEN AnyOrder(rows)
        ELSE LET mid == MiddleOf(keys)
             IN  {a \o b : a \in OrderByRecordedAtDesc({r \in rows : r.recorded_at > mid}),
                           b \in OrderByRecordedAtDesc({r \in rows : r.recorded_at <= mid})}

\* SQL: LIMIT n (a negative n is no limit in SQLite)
SqlLimit(s, n) == IF n < 0 THEN s ELSE SubSeq(s, 1, Min(n, Len(s)))

(***************************************************************************)
(* db.py: the reads.  Each is the set of lists the query may return.       *)
(***************************************************************************)
get_favorites(include_inactive) ==
    IF include_inactive
    THEN OrderByCreatedAtDesc(favorites)
    ELSE OrderByCreatedAtDesc({r \in favorites : r.is_active})

\* the cutoff compared with > instead of >=
tracking_with_strict_cutoff ==
    LET cutoff == now - TrackingWindow
    IN  OrderByCreatedAtDesc({r \in favorites : r.is_active /\ r.created_at > cutoff})

get_active_favorites_for_tracking ==
    LET cutoff == now - TrackingWindow
    IN  OrderByCreatedAtDesc({r \in favorites : r.is_active /\ r.created_at >= cutoff})

get_view_history(video_id, limit) ==
    LET rows == {view_history[i] : i \in {j \in DOMAIN view_history :
                                            view_history[j].video_id = video_id}}
    IN  {SqlLimit(s, limit) : s \in OrderByRecordedAtDesc(rows)}

(***************************************************************************)
(* db.py: the writes.                                                      *)
(***************************************************************************)
\* INSERT INTO favorites: raises IntegrityError when the key is taken
InsertRaisesIntegrityError(video_id) ==
    \E r \in favorites : r.video_id = video_id

\* the UPDATE of the except branch without is_active = 1
add_favorite_leaving_inactive(video_id, title) ==
    /\ IF ~InsertRaisesIntegrityError(video_id)
       THEN /\ favorites' = favorites \cup
                    {[video_id |-> video_id, title |-> title,
                      created_at |-> now, is_active |-> TRUE]}
            /\ result' = [op |-> "add_favorite", video_id |-> video_id,
                          title |-> title,
                          ret |-> [success |-> TRUE, video_id |-> video_id]]
       ELSE /\ favorites' =
                    {IF r.video_id = video_id THEN [r EXCEPT !.created_at = now] ELSE r
                     : r \in favorites}
            /\ result' = [op |-> "add_favorite", video_id |-> video_id,
                          title |-> title,
                          ret |-> [success |-> TRUE, video_id |-> video_id,
                                   reactivated |-> TRUE]]
    /\ UNCHANGED <<connections, now, API_KEY, view_history, DATA_FILE, PREVIEW_FILE>>

\* the UPDATE of the except branch without created_at = now
add_favorite_keeping_created_at(video_id, title) ==
    /\ IF ~InsertRaisesIntegrityError(video_id)
       THEN /\ favorites' = favorites \cup
                    {[video_id |-> video_id, title |-> title,
                      created_at |-> now, is_active |-> TRUE]}
            /\ result' = [op |-> "add_favorite", video_id |-> video_id,
                          title |-> title,
                          ret |-> [success |-> TRUE, video_id |-> video_id]]
       ELSE /\ favorites' =
                    {IF r.video_id = video_id THEN [r EXCEPT !.is_active = TRUE] ELSE r
                     : r \in favorites}
            /\ result' = [op |-> "add_favorite", video_id |-> video_id,
                          title |-> title,
                          ret |-> [success |-> TRUE, video_id |-> video_id,
                                   reactivated |-> TRUE]]
    /\ UNCHANGED <<connections, now, API_KEY, view_history, DATA_FILE, PREVIEW_FILE>>

\* the UPDATE of the except branch setting the title given as well
add_favorite_updating_title(video_id, title) ==
    /\ IF ~InsertRaisesIntegrityError(video_id)
       THEN /\ favorites' = favorites \cup
                    {[video_id |-> video_id, title |-> title,
                      created_at |-> now, is_active |-> TRUE]}
            /\ result' = [op |-> "add_favorite", video_id |-> video_id,
                          title |-> title,
                          ret |-> [success |-> TRUE, video_id |-> video_id]]
       ELSE /\ favorites' =
                    {IF r.video_id = video_id
                     THEN [r EXCEPT !.is_active = TRUE, !.created_at = now,
                                    !.title = title]
                     ELSE r : r \in favorites}
            /\ result' = [op |-> "add_favorite", video_id |-> video_id,
                          title |-> title,
                          ret |-> [success |-> TRUE, video_id |-> video_id,
                                   reactivated |-> TRUE]]
    /\ UNCHANGED <<connections, now, API_KEY, view_history, DATA_FILE, PREVIEW_FILE>>

\* the UPDATE of the except branch with AND is_active = 0, reactivated
\* reported when a row was updated
add_favorite_reactivating_inactive_only(video_id, title) ==
    /\ IF ~InsertRaisesIntegrityError(video_id)
       THEN /\ favorites' = favorites \cup
                    {[video_id |-> video_id, title |-> title,
                      created_at |-> now, is_active |-> TRUE]}
            /\ result' = [op |-> "add_favorite", video_id |-> video_id,
                          title |-> title,
                          ret |-> [success |-> TRUE, video_id |-> video_id]]
       ELSE /\ favorites' =
                    {IF r.video_id = video_id /\ ~r.is_active
                     THEN [r EXCEPT !.is_active = TRUE, !.created_at = now]
                     ELSE r : r \in favorites}
            /\ result' =
                 IF \E r \in favorites : r.video_id = video_id /\ ~r.is_active
                 THEN [op |-> "add_favorite", video_id |-> video_id,
                       title |-> title,
                       ret |-> [success |-> TRUE, video_id |-> video_id,
                                reactivated |-> TRUE]]
                 ELSE [op |-> "add_favorite", video_id |-> video_id,
                       title |-> title,
                       ret |-> [success |-> TRUE, video_id |-> video_id]]
    /\ UNCHANGED <<connections, now, API_KEY, view_history, DATA_FILE, PREVIEW_FILE>>

add_favorite(video_id, title) ==
    /\ IF ~InsertRaisesIntegrityError(video_id)
       THEN /\ favorites' = favorites \cup
                    {[video_id |-> video_id, title |-> title,
                      created_at |-> now, is_active |-> TRUE]}
            /\ result' = [op |-> "add_favorite", video_id |-> video_id,
                          title |-> title,
                          ret |-> [success |-> TRUE, video_id |-> video_id]]
       ELSE /\ favorites' =
                    {IF r.video_id = video_id
                     THEN [r EXCEPT !.is_active = TRUE, !.created_at = now]
                     ELSE r : r \in favorites}
            /\ result' = [op |-> "add_favorite", video_id |-> video_id,
                          title |-> title,
                          ret |-> [success |-> TRUE, video_id |-> video_id,
                                   reactivated |-> TRUE]]
    /\ UNCHANGED <<connections, now, API_KEY, view_history, DATA_FILE, PREVIEW_FILE>>

\* a DELETE in place of the UPDATE
remove_favorite_deleting(video_id) ==
    LET affected == Cardinality({r \in favorites : r.video_id = video_id})
    IN  /\ favorites' = {r \in favorites : r.video_id # video_id}
        /\ result' = [op |-> "remove_favorite", video_id |-> video_id,
                      ret |-> [success |-> affected > 0, video_id |-> video_id]]
        /\ UNCHANGED <<connections, now, API_KEY, view_history, DATA_FILE, PREVIEW_FILE>>

\* the UPDATE, and a DELETE of the video's snapshots with it
remove_favorite_purging(video_id) ==
    LET affected == Cardinality({r \in favorites : r.video_id = video_id})
    IN  /\ favorites' =
                {IF r.video_id = video_id THEN [r EXCEPT !.is_active = FALSE] ELSE r
                 : r \in favorites}
        /\ view_history' = SelectSeq(view_history, LAMBDA h : h.video_id # video_id)
        /\ result' = [op |-> "remove_favorite", video_id |-> video_id,
                      ret |-> [success |-> affected > 0, video_id |-> video_id]]
        /\ UNCHANGED <<connections, now, API_KEY, DATA_FILE, PREVIEW_FILE>>

\* the UPDATE with AND is_active = 1 in its WHERE
remove_favorite_counting_active(video_id) ==
    LET affected == Cardinality({r \in favorites : r.video_id = video_id /\ r.is_active})
    IN  /\ favorites' =
                {IF r.video_id = video_id THEN [r EXCEPT !.is_active = FALSE] ELSE r
                 : r \in favorites}
        /\ result' = [op |-> "remove_favorite", video_id |-> video_id,
                      ret |-> [success |-> affected > 0, video_id |-> video_id]]
        /\ UNCHANGED <<connections, now, API_KEY, view_history, DATA_FILE, PREVIEW_FILE>>

remove_favorite(video_id) ==
    LET affected == Cardinality({r \in favorites : r.video_id = video_id})
    IN  /\ favorites' =
                {IF r.video_id = video_id THEN [r EXCEPT !.is_active = FALSE] ELSE r
                 : r \in favorites}
        /\ result' = [op |-> "remove_favorite", video_id |-> video_id,
                      ret |-> [success |-> affected > 0, video_id |-> video_id]]
        /\ UNCHANGED <<connections, now, API_KEY, view_history, DATA_FILE, PREVIEW_FILE>>

\* INSERT INTO view_history, as record_view_count does it on the table h,
\* once for every entry of stats (a sequence of <video id, statistics>)
InsertSnapshots(h, stats) ==
    h \o [i \in DOMAIN stats |->
            [id |-> Len(h) + i, video_id |-> stats[i].key,
             view_count |-> stats[i].value.view_count, recorded_at |-> now]]

InsertSnapshot(h, video_id, view_count) ==
    InsertSnapshots(h, <<[key |-> video_id, value |-> [view_count |-> view_count]]>>)

\* the INSERT with the FOREIGN KEY of view_history enforced
record_view_count_enforcing_foreign_key(video_id, view_count) ==
    /\ view_history' = IF \E r \in favorites : r.video_id = video_id
                       THEN InsertSnapshot(view_history, video_id, view_count)
                       ELSE view_history
    /\ result' = [op |-> "record_view_count", video_id |-> video_id,
                  ret |-> [success |-> \E r \in favorites : r.video_id = video_id,
                           video_id |-> video_id, recorded_at |-> now]]
    /\ UNCHANGED <<connections, now, API_KEY, favorites, DATA_FILE, PREVIEW_FILE>>

record_view_count(video_id, view_count) ==
    /\ view_history' = InsertSnapshot(view_history, video_id, view_count)
    /\ result' = [op |-> "record_view_count", video_id |-> video_id,
                  ret |-> [success |-> TRUE, video_id |-> video_id, recorded_at |-> now]]
    /\ UNCHANGED <<connections, now, API_KEY, favorites, DATA_FILE, PREVIEW_FILE>>

(***************************************************************************)
(* The platform's videos endpoint, as the statistics lookups meet it.      *)
(* An upstream is: the calls of one refresh (1, 2, ...) that it answers    *)
(* with a non-200 status; the view count of every video it knows; and      *)
(* items it returns without having been asked for them.  A 200 answer      *)
(* lists the requested videos it knows, in the order requested, then the   *)
(* extra items.                                                            *)
(***************************************************************************)
KnownItems(known, video_ids) ==
    LET videos == DOMAIN known
        asked == SelectSeq(video_ids, LAMBDA v : v \in videos)
    IN  [i \in DOMAIN asked |-> [id |-> asked[i], viewCount |-> known[asked[i]]]]

VideosEndpoint(upstream, call, video_ids) ==
    IF call \in upstream.failing
    THEN [status_code |-> 500, items |-> <<>>]
    ELSE [status_code |-> 200,
          items |-> KnownItems(upstream.known, video_ids) \o upstream.extra]

(***************************************************************************)
(* A Python dict: a sequence of <key, value>, the keys in the order of     *)
(* their first insertion.                                                  *)
(***************************************************************************)
DictKeys(d) == {d[i].key : i \in DOMAIN d}
DictGet(d, k) == LET i == CHOOSE j \in DOMAIN d : d[j].key = k IN d[i].value

\* result = {}; for item in items: result[item["id"]] = {"view_count": ...}
\* (a key keeps the place of its first item and the value of its last)
StatsOfItems(items) ==
    LET places == [i \in DOMAIN items |-> i]
        firsts == SelectSeq(places, LAMBDA i : \A j \in 1..(i - 1) : items[j].id # items[i].id)
        LastOf(id) == CHOOSE j \in DOMAIN items :
                        /\ items[j].id = id
                        /\ \A l \in (j + 1)..Len(items) : items[l].id # id
    IN  [k \in DOMAIN firsts |->
            [key |-> items[firsts[k]].id,
             value |-> [view_count |-> items[LastOf(items[firsts[k]].id)].viewCount]]]

\* for i in range(0, len(video_ids), batch_size): video_ids[i:i + batch_size]
NumBatches(video_ids) == (Len(video_ids) + batch_size - 1) \div batch_size
BatchOf(video_ids, k) ==
    SubSeq(video_ids, (k - 1) * batch_size + 1, Min(k * batch_size, Len(video_ids)))

VideoIdsOf(rows) == [i \in DOMAIN rows |-> rows[i].video_id]

(***************************************************************************)
(* app.py: POST /favorites/refresh.                                        *)
(***************************************************************************)
\* app.fetch_video_stats: the dict, or the RuntimeError it raises
app_fetch_video_stats(resp) ==
    IF resp.status_code # 200
    THEN [raised |-> TRUE, stats |-> <<>>]
    ELSE [raised |-> FALSE, stats |-> StatsOfItems(resp.items)]

\* for video_id in batch: a snapshot when stats.get(video_id) is there,
\* missing.append(video_id) when it is not
AppForEachVideo(acc, batch, stats) ==
    LET keys == DictKeys(stats)
        found == SelectSeq(batch, LAMBDA v : v \in keys)
        absent == SelectSeq(batch, LAMBDA v : v \notin keys)
    IN  [acc EXCEPT
            !.hist = InsertSnapshots(@, [i \in DOMAIN found |->
                                            [key |-> found[i],
                                             value |-> DictGet(stats, found[i])]]),
            !.updated = @ + Len(found),
            !.missing = @ \o absent]

\* for i in range(0, len(video_ids), batch_size): ...   (k is the batch to do next)
RECURSIVE AppForEachBatch(_, _, _, _)
AppForEachBatch(acc, video_ids, k, upstream) ==
    IF k > NumBatches(video_ids) THEN acc
    ELSE LET batch == BatchOf(video_ids, k)
             got == app_fetch_video_stats(VideosEndpoint(upstream, k, batch))
             sent == [acc EXCEPT !.lookups = Append(@, batch),
                                 !.returned = @ \cup DictKeys(got.stats)]
         IN  IF got.raised
             THEN [sent EXCEPT !.raised = TRUE, !.errors = {k}]
             ELSE AppForEachBatch(AppForEachVideo(sent, batch, got.stats),
                                  video_ids, k + 1, upstream)

\* The favourites the handler reads
app_refresh_reads == get_favorites(FALSE)

app_refresh_favorites(upstream, capacity) ==
    IF ~API_KEY
    THEN /\ result' = [op |-> "app_refresh", status |-> 500, lookups |-> <<>>,
                       returned |-> {}, errors |-> {},
                       ret |-> [error |-> "API_KEY is not configured in environment"]]
         /\ UNCHANGED <<connections, now, API_KEY, favorites, view_history, DATA_FILE, PREVIEW_FILE>>
    ELSE \E favs \in app_refresh_reads :
         \E acc \in {AppForEachBatch(
                        [hist |-> view_history, updated |-> 0, missing |-> <<>>,
                         lookups |-> <<>>, returned |-> {}, errors |-> {},
                         raised |-> FALSE],
                        VideoIdsOf(favs), 1, upstream)} :
         LET video_ids == VideoIdsOf(favs)
         IN  /\ Len(acc.hist) <= capacity
             /\ view_history' = acc.hist
             /\ result' =
                  IF acc.raised
                  THEN [op |-> "app_refresh", status |-> 500, lookups |-> acc.lookups,
                        returned |-> acc.returned, errors |-> acc.errors,
                        ret |-> [error |-> "YouTube videos lookup failed"]]
                  ELSE [op |-> "app_refresh", status |-> 200, lookups |-> acc.lookups,
                        returned |-> acc.returned, errors |-> acc.errors,
                        ret |-> [total |-> Len(video_ids), updated |-> acc.updated,
                                 missing |-> acc.missing]]
             /\ UNCHANGED <<connections, now, API_KEY, favorites, DATA_FILE, PREVIEW_FILE>>

(***************************************************************************)
(* refresh_favorites.py: the scheduled script's refresh_favorites().       *)
(***************************************************************************)
\* refresh_favorites.fetch_video_stats: prints the error and returns {}
script_fetch_video_stats(resp) ==
    IF resp.status_code # 200
    THEN [failed |-> TRUE, stats |-> <<>>]
    ELSE [failed |-> FALSE, stats |-> StatsOfItems(resp.items)]

\* for video_id, video_stats in stats.items(): ...
ScriptForEachStat(acc, stats) ==
    [acc EXCEPT !.hist = InsertSnapshots(@, stats),
                !.total_updated = @ + Len(stats)]

RECURSIVE ScriptForEachBatch(_, _, _, _)
ScriptForEachBatch(acc, video_ids, k, upstream) ==
    IF k > NumBatches(video_ids) THEN acc
    ELSE LET batch == BatchOf(video_ids, k)
             got == script_fetch_video_stats(VideosEndpoint(upstream, k, batch))
             sent == [acc EXCEPT !.lookups = Append(@, batch),
                                 !.returned = @ \cup DictKeys(got.stats),
                                 !.errors = IF got.failed THEN @ \cup {k} ELSE @]
         IN  ScriptForEachBatch(ScriptForEachStat(sent, got.stats),
                                video_ids, k + 1, upstream)

script_refresh_reads == get_active_favorites_for_tracking

script_refresh_favorites(upstream, capacity) ==
    IF ~API_KEY
    THEN /\ result' = [op |-> "script_refresh", exit |-> 1, lookups |-> <<>>,
                       returned |-> {}, errors |-> {}]
         /\ UNCHANGED <<connections, now, API_KEY, favorites, view_history, DATA_FILE, PREVIEW_FILE>>
    ELSE \E favs \in script_refresh_reads :
         \E acc \in {ScriptForEachBatch(
                        [hist |-> view_history, total_updated |-> 0,
                         lookups |-> <<>>, returned |-> {}, errors |-> {}],
                        VideoIdsOf(favs), 1, upstream)} :
         LET video_ids == VideoIdsOf(favs)
         IN  /\ Len(acc.hist) <= capacity
             /\ view_history' = acc.hist
             /\ result' = [op |-> "script_refresh", exit |-> 0,
                           lookups |-> acc.lookups, returned |-> acc.returned,
                           errors |-> acc.errors, total |-> Len(video_ids),
                           total_updated |-> acc.total_updated]
             /\ UNCHANGED <<connections, now, API_KEY, favorites, DATA_FILE, PREVIEW_FILE>>

(***************************************************************************)
(* The clock.                                                              *)
(***************************************************************************)
Tick(d) ==
    /\ now + d <= MaxDays * HoursPerDay
    /\ now' = now + d
    /\ result' = [op |-> "tick"]
    /\ UNCHANGED <<connections, API_KEY, favorites, view_history, DATA_FILE, PREVIEW_FILE>>

(***************************************************************************)
(* The store in use: db.init_db() on a fresh file, then any sequence of    *)
(* operations on two videos, the clock advancing in between.               *)
(***************************************************************************)
\* The upstreams the refreshes of the small store meet: the lookup fails,
\* or it answers for the videos of some set.
UpstreamViews == [v \in VideoIds |-> 500 + 500 * v]
Upstreams ==
    {[failing |-> {1}, known |-> <<>>, extra |-> <<>>]} \cup
    {[failing |-> {}, known |-> [v \in K |-> UpstreamViews[v]], extra |-> <<>>] :
        K \in SUBSET VideoIds}

Init ==
    /\ now = 0
    /\ API_KEY = TRUE
    /\ connections = <<>>
    /\ favorites = {}
    /\ view_history = <<>>
    /\ DATA_FILE = NoFile
    /\ PREVIEW_FILE = NoFile
    /\ result = [op |-> "init_db"]

Next ==
    \/ \E d \in TickSteps : Tick(d)
    \/ \E v \in VideoIds, t \in Titles : add_favorite(v, t)
    \/ \E v \in VideoIds : remove_favorite(v)
    \/ \E v \in VideoIds, c \in ViewCounts :
            Len(view_history) < MaxSnapshots /\ record_view_count(v, c)
    \/ \E u \in Upstreams : app_refresh_favorites(u, MaxSnapshots)
    \/ \E u \in Upstreams : script_refresh_favorites(u, MaxSnapshots)

Spec == Init /\ [][Next]_vars

(***************************************************************************)
(* The store with more favourites than one lookup takes: batch_size - 1,   *)
(* batch_size or batch_size + 1 videos, added an hour apart and all still  *)
(* tracked, then refreshes.  The upstream fails any of the first two       *)
(* lookups and knows every video but at most one, which is among the       *)
(* first or the last to be looked up.                                      *)
(***************************************************************************)
BulkCounts == {batch_size - 1, batch_size, batch_size + 1}
BulkCapacity == batch_size + 1
BulkUpstreams(n) ==
    {[failing |-> F, known |-> [v \in (1..n) \ {m} |-> 1000 + v], extra |-> <<>>] :
        F \in SUBSET {1, 2}, m \in {0, 1, 2, n - 1, n}}

BulkInit ==
    \E n \in BulkCounts :
        /\ now = n
        /\ API_KEY = TRUE
        /\ connections = <<>>
        /\ favorites = {[video_id |-> v, title |-> "t1", created_at |-> v,
                         is_active |-> TRUE] : v \in 1..n}
        /\ view_history = <<>>
        /\ DATA_FILE = NoFile
        /\ PREVIEW_FILE = NoFile
        /\ result = [op |-> "add_favorite", video_id |-> n, title |-> "t1",
                     ret |-> [success |-> TRUE, video_id |-> n]]

BulkNext ==
    \/ \E u \in BulkUpstreams(Cardinality(favorites)) :
            app_refresh_favorites(u, BulkCapacity)
    \/ \E u \in BulkUpstreams(Cardinality(favorites)) :
            script_refresh_favorites(u, BulkCapacity)

SpecBulk == BulkInit /\ [][BulkNext]_vars

(***************************************************************************)
(* Text.  A Python str is the sequence of its characters, so that strip(), *)
(* lower() and the duration pattern work on what the string holds.         *)
(***************************************************************************)
Whitespace == {" "}
Digits == {"0", "1", "2", "3", "4", "5", "6", "7", "8", "9"}
DigitValue ==
    ("0" :> 0) @@ ("1" :> 1) @@ ("2" :> 2) @@ ("3" :> 3) @@ ("4" :> 4) @@
    ("5" :> 5) @@ ("6" :> 6) @@ ("7" :> 7) @@ ("8" :> 8) @@ ("9" :> 9)
UpperToLower ==
    ("A" :> "a") @@ ("B" :> "b") @@ ("H" :> "h") @@ ("M" :> "m") @@
    ("P" :> "p") @@ ("S" :> "s") @@ ("T" :> "t")

Minimum(S) == CHOOSE k \in S : \A j \in S : k <= j
Maximum(S) == CHOOSE k \in S : \A j \in S : k >= j

\* str.strip()
Strip(s) ==
    LET solid == {i \in DOMAIN s : s[i] \notin Whitespace}
    IN  IF solid = {} THEN <<>> ELSE SubSeq(s, Minimum(solid), Maximum(solid))

\* str.lower()
Lower(s) ==
    [i \in DOMAIN s |-> IF s[i] \in DOMAIN UpperToLower THEN UpperToLower[s[i]] ELSE s[i]]

\* int() of a run of digits ("" counts 0, as `int(match.group(..) or 0)`)
RECURSIVE DecimalValue(_)
DecimalValue(digits) ==
    IF digits = <<>> THEN 0
    ELSE 10 * DecimalValue(SubSeq(digits, 1, Len(digits) - 1)) + DigitValue[digits[Len(digits)]]

(***************************************************************************)
(* app.py: parse_iso_duration.  DURATION_RE.fullmatch accepts PT and then  *)
(* <digits>H, <digits>M, <digits>S, each at most once and in this order,   *)
(* in either case; anything else gives 0.                                  *)
(***************************************************************************)
UnitSeconds == ("h" :> 3600) @@ ("m" :> 60) @@ ("s" :> 1)
UnitOrder == ("h" :> 1) @@ ("m" :> 2) @@ ("s" :> 3)

\* the pattern with its three groups in any order
parse_with_groups_in_any_order(duration) ==
    LET text == Lower(duration)
        rest == SubSeq(text, 3, Len(text))
        units == {i \in DOMAIN rest : rest[i] \notin Digits}
        StartOf(i) == IF \E j \in units : j < i
                      THEN Maximum({j \in units : j < i}) + 1 ELSE 1
        matches ==
            /\ Len(text) >= 2
            /\ text[1] = "p"
            /\ text[2] = "t"
            /\ \A i \in units : rest[i] \in DOMAIN UnitSeconds /\ StartOf(i) < i
            /\ rest # <<>> => Len(rest) \in units
            /\ \A i, j \in units : i < j => rest[i] # rest[j]
        Seconds(i) == DecimalValue(SubSeq(rest, StartOf(i), i - 1)) * UnitSeconds[rest[i]]
        RECURSIVE Sum(_)
        Sum(S) == IF S = {} THEN 0
                  ELSE LET i == Minimum(S) IN Seconds(i) + Sum(S \ {i})
    IN  IF matches THEN Sum(units) ELSE 0

parse_iso_duration(duration) ==
    LET text == Lower(duration)
        rest == SubSeq(text, 3, Len(text))
        units == {i \in DOMAIN rest : rest[i] \notin Digits}
        \* the digits that stand before the unit at i
        StartOf(i) == IF \E j \in units : j < i
                      THEN Maximum({j \in units : j < i}) + 1 ELSE 1
        matches ==
            /\ Len(text) >= 2
            /\ text[1] = "p"
            /\ text[2] = "t"
            /\ \A i \in units : rest[i] \in DOMAIN UnitSeconds /\ StartOf(i) < i
            /\ rest # <<>> => Len(rest) \in units
            /\ \A i, j \in units : i < j => UnitOrder[rest[i]] < UnitOrder[rest[j]]
        Seconds(i) == DecimalValue(SubSeq(rest, StartOf(i), i - 1)) * UnitSeconds[rest[i]]
        RECURSIVE Sum(_)
        Sum(S) == IF S = {} THEN 0
                  ELSE LET i == Minimum(S) IN Seconds(i) + Sum(S \ {i})
    IN  IF matches THEN Sum(units) ELSE 0

(***************************************************************************)
(* The platform's search and videos endpoints, as a collection meets them. *)
(* A feed gives, for every query, the pages of its search: the status of   *)
(* the search call, the videoId of each search item ("" when the item has  *)
(* none), the nextPageToken (the number of the page it leads to, NoToken   *)
(* when there is none), and the status and the items of the answer to the  *)
(* details call made for the page.                                         *)
(***************************************************************************)
NoToken == 0
NoId == ""

PageOf(feed, q, page_token) ==
    feed[q][IF page_token = NoToken THEN 1 ELSE page_token]

\* sorted(records, key=view_count) with reverse=True left out
sorted_without_reverse(records) ==
    LET n == Len(records)
        Place(i) == 1 + Cardinality({j \in 1..n :
                        \/ records[j].view_count < records[i].view_count
                        \/ records[j].view_count = records[i].view_count /\ j < i})
    IN  [p \in 1..n |-> records[CHOOSE i \in 1..n : Place(i) = p]]

\* sorted(records, key=view_count, reverse=True): Python's sort is stable,
\* records with equal view_count keep their order
SortedByViewCountDesc(records) ==
    LET n == Len(records)
        Place(i) == 1 + Cardinality({j \in 1..n :
                        \/ records[j].view_count > records[i].view_count
                        \/ records[j].view_count = records[i].view_count /\ j < i})
    IN  [p \in 1..n |-> records[CHOOSE i \in 1..n : Place(i) = p]]

Truncate(records, n) == SubSeq(records, 1, Min(n, Len(records)))

(***************************************************************************)
(* app.py: fetch_shorts.                                                   *)
(***************************************************************************)
\* One detail item as fetch_shorts keeps it
CandidateOf(item) ==
    [video_id |-> item.id, title |-> item.title,
     duration_seconds |-> parse_iso_duration(item.duration),
     view_count |-> item.viewCount]

\* the test on the duration letting 0 through
is_short_or_zero(c) == ~(c.duration_seconds < 0 \/ c.duration_seconds > 60)

\* if duration_seconds <= 0 or duration_seconds > 60: continue
IsShort(c) == ~(c.duration_seconds <= 0 \/ c.duration_seconds > 60)

\* while len(collected) < max_results: one page of search and details
RECURSIVE FetchPages(_, _, _, _, _)
FetchPages(acc, feed, q, page_token, max_results) ==
    IF Len(acc.collected) >= max_results THEN acc
    ELSE
    LET page == PageOf(feed, q, page_token)
        searched == [acc EXCEPT !.calls = Append(@,
                        [endpoint |-> "search", q |-> q, pageToken |-> page_token,
                         ids |-> <<>>, status_code |-> page.search_status])]
        video_ids == SelectSeq(page.videoIds, LAMBDA v : v # NoId)
        looked == [searched EXCEPT !.calls = Append(@,
                        [endpoint |-> "videos", q |-> <<>>, pageToken |-> NoToken,
                         ids |-> video_ids, status_code |-> page.details_status])]
        candidates == [i \in DOMAIN page.items |-> CandidateOf(page.items[i])]
        shorts == SelectSeq(candidates, IsShort)
        \* the loop over the items breaks once max_results are collected
        room == max_results - Len(acc.collected)
        kept == [looked EXCEPT !.collected = @ \o Truncate(shorts, room)]
    IN  IF page.search_status # 200
        THEN [searched EXCEPT !.raised = "YouTube search failed"]
        ELSE IF video_ids = <<>> THEN searched
        ELSE IF page.details_status # 200
        THEN [looked EXCEPT !.raised = "YouTube videos lookup failed"]
        ELSE IF page.nextPageToken = NoToken THEN kept
        ELSE FetchPages(kept, feed, q, page.nextPageToken, max_results)

\* a failed call ends the paging and what was collected is returned
fetch_shorts_swallowing_failures(keywords, max_results, feed) ==
    LET got == FetchPages([collected |-> <<>>, calls |-> <<>>, raised |-> ""],
                          feed, keywords, NoToken, max_results)
    IN  [raised |-> "", calls |-> got.calls,
         part |-> Truncate(SortedByViewCountDesc(got.collected), max_results)]

\* The list it returns, the calls it made, and the RuntimeError it raised if any
fetch_shorts(keywords, max_results, feed) ==
    IF ~API_KEY
    THEN [raised |-> "API_KEY is not configured in environment",
          calls |-> <<>>, part |-> <<>>]
    ELSE LET got == FetchPages([collected |-> <<>>, calls |-> <<>>, raised |-> ""],
                               feed, keywords, NoToken, max_results)
         IN  [raised |-> got.raised, calls |-> got.calls,
              part |-> IF got.raised # "" THEN <<>>
                       ELSE Truncate(SortedByViewCountDesc(got.collected), max_results)]

(***************************************************************************)
(* app.py: save_data and POST /collect.                                    *)
(***************************************************************************)
PreviewSize == 3
DefaultMaxResults == 20
MaxResultsLimit == 10000
DefaultDays == 7

\* An optional field of the JSON payload
None == <<>>
Some(x) == <<x>>

\* merged[vid] = item for every item, whatever merged holds already
merge_appending_every_item(merged, item) ==
    IF item.video_id = NoId THEN merged
    ELSE Append(merged, [key |-> item.video_id, value |-> item])

\* the stored copy replaced also by a copy with as many views
merge_replacing_on_equal_views(merged, item) ==
    IF item.video_id = NoId THEN merged
    ELSE IF item.video_id \notin DictKeys(merged)
    THEN Append(merged, [key |-> item.video_id, value |-> item])
    ELSE IF item.view_count >= DictGet(merged, item.video_id).view_count
    THEN [i \in DOMAIN merged |->
            IF merged[i].key = item.video_id
            THEN [key |-> item.video_id, value |-> item] ELSE merged[i]]
    ELSE merged

\* The body of `for item in part`
MergeItem(merged, item) ==
    IF item.video_id = NoId THEN merged
    ELSE IF item.video_id \notin DictKeys(merged)
    THEN Append(merged, [key |-> item.video_id, value |-> item])
    ELSE IF item.view_count > DictGet(merged, item.video_id).view_count
    THEN [i \in DOMAIN merged |->
            IF merged[i].key = item.video_id
            THEN [key |-> item.video_id, value |-> item] ELSE merged[i]]
    ELSE merged

RECURSIVE MergePart(_, _, _)
MergePart(merged, part, i) ==
    IF i > Len(part) THEN merged
    ELSE MergePart(MergeItem(merged, part[i]), part, i + 1)

\* a keyword whose fetch_shorts raises is passed over
RECURSIVE merge_skipping_failed_keywords(_, _, _, _, _)
merge_skipping_failed_keywords(acc, keyword_list, k, max_results, feed) ==
    IF k > Len(keyword_list) THEN acc
    ELSE LET got == fetch_shorts(keyword_list[k], max_results, feed)
             called == [acc EXCEPT !.calls = @ \o got.calls]
         IN  merge_skipping_failed_keywords(
                [called EXCEPT !.merged = MergePart(@, got.part, 1),
                               !.parts = Append(@, got.part)],
                keyword_list, k + 1, max_results, feed)

\* for kw in keyword_list: ...   (k is the keyword to do next)
RECURSIVE MergeKeywords(_, _, _, _, _)
MergeKeywords(acc, keyword_list, k, max_results, feed) ==
    IF k > Len(keyword_list) THEN acc
    ELSE LET got == fetch_shorts(keyword_list[k], max_results, feed)
             called == [acc EXCEPT !.calls = @ \o got.calls]
         IN  IF got.raised # ""
             THEN [called EXCEPT !.raised = got.raised]
             ELSE MergeKeywords(
                    [called EXCEPT !.merged = MergePart(@, got.part, 1),
                                   !.parts = Append(@, got.part)],
                    keyword_list, k + 1, max_results, feed)

DictValues(d) == [i \in DOMAIN d |-> d[i].value]

\* the loop over keyword_list with seen holding kw in place of kw.lower()
keyword_list_seen_by_spelling(keyword_list_raw) ==
    LET stripped == [i \in DOMAIN keyword_list_raw |-> Strip(keyword_list_raw[i])]
        present == SelectSeq(stripped, LAMBDA k : k # <<>>)
        places == [i \in DOMAIN present |-> i]
        firsts == SelectSeq(places, LAMBDA i :
                      \A j \in 1..(i - 1) : present[j] # present[i])
    IN  [i \in DOMAIN firsts |-> present[firsts[i]]]

\* keyword_list: stripped, the empty ones dropped, then the first of every
\* group that agrees in lower case
KeywordListOf(keyword_list_raw) ==
    LET stripped == [i \in DOMAIN keyword_list_raw |-> Strip(keyword_list_raw[i])]
        present == SelectSeq(stripped, LAMBDA k : k # <<>>)
        places == [i \in DOMAIN present |-> i]
        firsts == SelectSeq(places, LAMBDA i :
                      \A j \in 1..(i - 1) : Lower(present[j]) # Lower(present[i]))
    IN  [i \in DOMAIN firsts |-> present[firsts[i]]]

\* the artifacts written, with nothing in them, before the request is refused
bad_request_after_saving(payload, error) ==
    /\ result' = [op |-> "collect", status |-> 400, payload |-> payload,
                  calls |-> <<>>, parts |-> <<>>, merged |-> <<>>,
                  ret |-> [error |-> error]]
    /\ DATA_FILE' = FileOf(<<>>)
    /\ PREVIEW_FILE' = FileOf(<<>>)
    /\ UNCHANGED <<connections, now, API_KEY, favorites, view_history>>

BadRequest(payload, error) ==
    /\ result' = [op |-> "collect", status |-> 400, payload |-> payload,
                  calls |-> <<>>, parts |-> <<>>, merged |-> <<>>,
                  ret |-> [error |-> error]]
    /\ UNCHANGED <<connections, now, API_KEY, favorites, view_history, DATA_FILE, PREVIEW_FILE>>

\* the records written after what the files held already
save_data_appending(records) ==
    /\ DATA_FILE' = FileOf(DATA_FILE.records \o records)
    /\ PREVIEW_FILE' = FileOf(Truncate(DATA_FILE.records \o records, PreviewSize))

\* write_text replaces the content of both files
save_data(records) ==
    /\ DATA_FILE' = FileOf(records)
    /\ PREVIEW_FILE' = FileOf(Truncate(records, PreviewSize))

\* the default taken for an absent max_results only
max_results_keeping_zero(payload) ==
    IF payload.max_results = None THEN DefaultMaxResults ELSE payload.max_results[1]

\* max_results = int(payload.get("max_results") or 20)
MaxResultsOf(payload) ==
    IF payload.max_results = None \/ payload.max_results = Some(0)
    THEN DefaultMaxResults ELSE payload.max_results[1]

collect(payload, feed) ==
    LET keywords == Strip(payload.keywords)
        deduped == KeywordListOf(payload.keyword_list)
        max_results == MaxResultsOf(payload)
        days_int == IF payload.days = None THEN DefaultDays ELSE payload.days[1]
        keyword_list == IF deduped = <<>> /\ keywords # <<>> THEN <<keywords>> ELSE deduped
    IN  IF keyword_list = <<>> THEN BadRequest(payload, "keywords is required")
        ELSE IF max_results < 1 \/ max_results > MaxResultsLimit
        THEN BadRequest(payload, "max_results must be between 1 and 10000")
        ELSE IF days_int < 0 THEN BadRequest(payload, "days must be non-negative")
        ELSE
        \E acc \in {MergeKeywords([merged |-> <<>>, calls |-> <<>>, parts |-> <<>>,
                                   raised |-> ""],
                                  keyword_list, 1, max_results, feed)} :
        LET records == Truncate(SortedByViewCountDesc(DictValues(acc.merged)), max_results)
            preview == Truncate(records, PreviewSize)
        IN  IF acc.raised # ""
            THEN /\ result' = [op |-> "collect", status |-> 500, payload |-> payload,
                               calls |-> acc.calls,
                               parts |-> acc.parts, merged |-> acc.merged,
                               max_results |-> max_results,
                               ret |-> [error |-> acc.raised]]
                 /\ UNCHANGED <<connections, now, API_KEY, favorites, view_history,
                                DATA_FILE, PREVIEW_FILE>>
            ELSE /\ save_data(records)
                 /\ result' = [op |-> "collect", status |-> 200, payload |-> payload,
                               calls |-> acc.calls,
                               parts |-> acc.parts, merged |-> acc.merged,
                               max_results |-> max_results,
                               ret |-> [total |-> Len(records),
                                        keywords_used |-> keyword_list,
                                        saved |-> Len(records),
                                        preview_count |-> Len(preview)]]
                 /\ UNCHANGED <<connections, now, API_KEY, favorites, view_history>>

(***************************************************************************)
(* Collections: a POST /collect request on a fresh installation or on the  *)
(* artifacts an earlier collection saved.  Keywords are spelled with a, A, *)
(* b and blanks; the feed answers a and A alike.                           *)
(***************************************************************************)
MaxKeywords == 3

Keywords == {<<"a">>, <<"A", " ">>, <<"b">>, <<" ">>}
KeywordLists == UNION {[1..n -> Keywords] : n \in 0..MaxKeywords}
Queries == {Strip(k) : k \in Keywords} \ {<<>>}

Payloads ==
    {[keyword_list |-> l, keywords |-> <<>>, max_results |-> m, days |-> None] :
        l \in KeywordLists, m \in {None, Some(2)}}
    \cup
    {[keyword_list |-> l, keywords |-> k, max_results |-> m, days |-> d] :
        l \in {<<>>, << <<" ">> >>}, k \in {<<>>, <<" ", "b">>},
        m \in {Some(0), Some(-1), Some(MaxResultsLimit), Some(MaxResultsLimit + 1)},
        d \in {None, Some(-1), Some(0)}}

PT30S == <<"P", "T", "3", "0", "S">>
PT1M == <<"P", "T", "1", "M">>
PT1M1S == <<"p", "t", "1", "m", "1", "s">>
P1D == <<"P", "1", "D">>

Item(id, duration, viewCount, title) ==
    [id |-> id, duration |-> duration, viewCount |-> viewCount, title |-> title]
OnePage(videoIds, items) ==
    [search_status |-> 200, videoIds |-> videoIds, nextPageToken |-> NoToken,
     details_status |-> 200, items |-> items]

\* What the search for a may answer
PagesOfA ==
    { \* nothing found
      << OnePage(<<>>, <<>>) >>,
      \* the search fails
      << [OnePage(<<>>, <<>>) EXCEPT !.search_status = 403] >>,
      \* x on both pages, with more views on the second
      << [OnePage(<<"x", "y">>, << Item("x", PT30S, 100, "x1"), Item("y", PT1M, 200, "y1") >>)
            EXCEPT !.nextPageToken = 2],
         OnePage(<<"x">>, << Item("x", PT30S, 300, "x2") >>) >>,
      \* x twice on one page with the same views, an item without id, a
      \* video over a minute and one whose duration does not parse
      << OnePage(<<"x", NoId, "z", "x">>,
                 << Item("x", PT30S, 100, "x1"), Item(NoId, PT30S, 400, "anon"),
                    Item("z", PT1M1S, 500, "z1"), Item("w", P1D, 600, "w1"),
                    Item("x", PT30S, 100, "x2") >>) >>,
      \* three shorts that b does not give, the one with the most views last
      << OnePage(<<"u", "z", "w">>,
                 << Item("u", PT30S, 100, "u1"), Item("z", PT30S, 300, "z1"),
                    Item("w", PT1M, 400, "w1") >>) >> }

\* What the search for b may answer
PagesOfB ==
    { << OnePage(<<>>, <<>>) >>,
      \* the details call fails
      << [OnePage(<<"w">>, <<>>) EXCEPT !.details_status = 500] >>,
      \* x with the views a gives it, y with more
      << OnePage(<<"x", "y">>, << Item("x", PT30S, 100, "x3"), Item("y", PT30S, 300, "y2") >>) >>,
      \* x twice with more views, and a video a does not give
      << OnePage(<<"x", "v", "x">>,
                 << Item("x", PT30S, 500, "x4"), Item("v", PT30S, 50, "v1"),
                    Item("x", PT30S, 500, "x5") >>) >> }

Feeds ==
    {[q \in Queries |-> IF Lower(q) = <<"a">> THEN a ELSE b] :
        a \in PagesOfA, b \in PagesOfB}

\* What an earlier collection saved: four records, and the first three of them
EarlierRecords ==
    << [video_id |-> "p", title |-> "p1", duration_seconds |-> 20, view_count |-> 900],
       [video_id |-> "x", title |-> "x0", duration_seconds |-> 30, view_count |-> 90],
       [video_id |-> "q", title |-> "q1", duration_seconds |-> 60, view_count |-> 80],
       [video_id |-> "r", title |-> "r1", duration_seconds |-> 10, view_count |-> 70] >>
PriorArtifacts ==
    {[data |-> NoFile, preview |-> NoFile],
     [data |-> FileOf(EarlierRecords),
      preview |-> FileOf(Truncate(EarlierRecords, PreviewSize))]}

CollectInit ==
    \E prior \in PriorArtifacts :
        /\ now = 0
        /\ API_KEY = TRUE
        /\ connections = <<>>
        /\ favorites = {}
        /\ view_history = <<>>
        /\ DATA_FILE = prior.data
        /\ PREVIEW_FILE = prior.preview
        /\ result = [op |-> "init_db"]

\* The behaviour is followed up to the response to the request
CollectNext ==
    /\ result.op = "init_db"
    /\ \E payload \in Payloads, feed \in Feeds : collect(payload, feed)

SpecCollect == CollectInit /\ [][CollectNext]_vars

(***************************************************************************)
(* app.py: POST /favorites.  Python binds the keyword arguments of a call  *)
(* to the parameters of the function and raises TypeError for a keyword    *)
(* the function does not have; Flask answers an unhandled exception with   *)
(* status 500.                                                             *)
(***************************************************************************)
db_add_favorite_parameters ==
    {"video_id", "title", "channel_id", "channel_title", "thumbnail_url"}
api_add_favorite_keywords ==
    {"video_id", "title", "channel_id", "channel_title", "thumbnail_url", "published_at"}
CallRaisesTypeError(keywords, parameters) == ~(keywords \subseteq parameters)

\* db.add_favorite as a function of the table: the rows it leaves, and its result
FavoritesAfterAdd(video_id, title) ==
    IF ~InsertRaisesIntegrityError(video_id)
    THEN favorites \cup {[video_id |-> video_id, title |-> title,
                          created_at |-> now, is_active |-> TRUE]}
    ELSE {IF r.video_id = video_id
          THEN [r EXCEPT !.is_active = TRUE, !.created_at = now]
          ELSE r : r \in favorites}
ResultOfAdd(video_id) ==
    IF ~InsertRaisesIntegrityError(video_id)
    THEN [success |-> TRUE, video_id |-> video_id]
    ELSE [success |-> TRUE, video_id |-> video_id, reactivated |-> TRUE]

api_add_favorite(payload, capacity) ==
    IF payload.video_id = None
    THEN /\ result' = [op |-> "api_add_favorite", status |-> 400, payload |-> payload,
                       ret |-> [error |-> "video_id is required"]]
         /\ UNCHANGED <<connections, now, API_KEY, favorites, view_history, DATA_FILE, PREVIEW_FILE>>
    ELSE IF CallRaisesTypeError(api_add_favorite_keywords, db_add_favorite_parameters)
    THEN /\ result' = [op |-> "api_add_favorite", status |-> 500, payload |-> payload,
                       ret |-> [error |-> "TypeError"]]
         /\ UNCHANGED <<connections, now, API_KEY, favorites, view_history, DATA_FILE, PREVIEW_FILE>>
    ELSE LET video_id == payload.video_id[1]
         IN  /\ payload.view_count # None => Len(view_history) < capacity
             /\ favorites' = FavoritesAfterAdd(video_id, payload.title)
             /\ view_history' =
                  IF payload.view_count = None THEN view_history
                  ELSE InsertSnapshot(view_history, video_id, payload.view_count[1])
             /\ result' = [op |-> "api_add_favorite", status |-> 200, payload |-> payload,
                           ret |-> ResultOfAdd(video_id)]
             /\ UNCHANGED <<connections, now, API_KEY, DATA_FILE, PREVIEW_FILE>>

(***************************************************************************)
(* db.py and app.py: GET /favorites/<video_id>/history.  The query joins   *)
(* the favourite with the snapshot numbered 1 in its partition of          *)
(* view_history, numbered by recorded_at descending; among the snapshots   *)
(* with the greatest recorded_at any one may get the number 1.  Each       *)
(* operator is the set of answers the call may give.                       *)
(***************************************************************************)
\* ROW_NUMBER() OVER (PARTITION BY video_id ORDER BY recorded_at DESC) = 1
NumberedFirst(video_id) ==
    LET partition == {view_history[i] : i \in {j \in DOMAIN view_history :
                                                 view_history[j].video_id = video_id}}
    IN  {h \in partition : \A o \in partition : h.recorded_at >= o.recorded_at}

JoinedRow(f, view_count, last_updated) ==
    [video_id |-> f.video_id, title |-> f.title, created_at |-> f.created_at,
     is_active |-> f.is_active, view_count |-> view_count, last_updated |-> last_updated]

get_favorite_with_latest_stats(video_id) ==
    LET matching == {f \in favorites : f.video_id = video_id}
        rows == IF NumberedFirst(video_id) = {}
                THEN {JoinedRow(f, None, None) : f \in matching}
                ELSE {JoinedRow(f, Some(h.view_count), Some(h.recorded_at)) :
                         f \in matching, h \in NumberedFirst(video_id)}
    IN  IF rows = {} THEN {None} ELSE {Some(row) : row \in rows}

get_favorite_history(video_id) ==
    {IF favorite = None
     THEN [status |-> 404, error |-> "Favorite not found", video |-> None,
           history |-> <<>>]
     ELSE [status |-> 200, error |-> "", video |-> favorite, history |-> history] :
        favorite \in get_favorite_with_latest_stats(video_id),
        history \in get_view_history(video_id, DefaultLimit)}

(***************************************************************************)
(* The HTTP surface next to the store: favourites are added and removed    *)
(* and snapshots recorded through db.py, and then a request arrives at     *)
(* POST /favorites or POST /collect; the behaviour is followed up to the   *)
(* response.  The collect requests are the ones around the limits of       *)
(* validation, against a feed that answers and one that fails.             *)
(***************************************************************************)
AddPayloads ==
    {[video_id |-> v, title |-> t, view_count |-> c] :
        v \in {None} \cup {Some(i) : i \in VideoIds}, t \in Titles,
        c \in {None} \cup {Some(n) : n \in ViewCounts}}

ApiCollectPayloads ==
    {[keyword_list |-> l, keywords |-> k, max_results |-> m, days |-> d] :
        l \in {<<>>, << <<" ">> >>, << <<"a">> >>}, k \in {<<>>, <<" ">>, <<" ", "b">>},
        m \in {None, Some(0), Some(-1), Some(1), Some(MaxResultsLimit),
               Some(MaxResultsLimit + 1)},
        d \in {None, Some(-1), Some(0)}}

ApiFeeds ==
    {[q \in Queries |-> << OnePage(<<"x", "y">>,
                                   << Item("x", PT30S, 100, "x1"),
                                      Item("y", PT30S, 300, "y1") >>) >>],
     [q \in Queries |-> << [OnePage(<<>>, <<>>) EXCEPT !.search_status = 403] >>]}

ApiInit ==
    \E prior \in PriorArtifacts :
        /\ now = 0
        /\ API_KEY = TRUE
        /\ connections = <<>>
        /\ favorites = {}
        /\ view_history = <<>>
        /\ DATA_FILE = prior.data
        /\ PREVIEW_FILE = prior.preview
        /\ result = [op |-> "init_db"]

ApiNext ==
    /\ result.op \notin {"api_add_favorite", "collect"}
    /\ \/ \E payload \in AddPayloads : api_add_favorite(payload, MaxSnapshots)
       \/ \E payload \in ApiCollectPayloads, feed \in ApiFeeds : collect(payload, feed)
       \/ \E v \in VideoIds, t \in Titles : add_favorite(v, t)
       \/ \E v \in VideoIds : remove_favorite(v)
       \/ \E v \in VideoIds, c \in ViewCounts :
               Len(view_history) < MaxSnapshots /\ record_view_count(v, c)

SpecApi == ApiInit /\ [][ApiNext]_vars

(***************************************************************************)
(* The Collector alone: fetch_shorts called once for a keyword, with       *)
(* max_results from 1 to 3, on searches of up to MaxPages pages, each      *)
(* page but the last leading to the next.  A page is a failed search, a    *)
(* search that finds nothing or items without videoId, a search whose      *)
(* details call fails, or a search with one of four lists of details.      *)
(***************************************************************************)
MaxPages == 2

FetchMaxResults == {1, 2, 3}
FetchQuery == <<"a">>

ItemLists ==
    { <<>>,
      << Item("x", PT30S, 100, "x1") >>,
      << Item("y", PT1M1S, 900, "y1"), Item("z", PT1M, 200, "z1") >>,
      << Item("w", P1D, 800, "w1"), Item("x", PT30S, 300, "x2"),
         Item("v", PT30S, 50, "v1") >>,
      << Item("v", PT30S, 50, "v1"), Item("x", PT30S, 300, "x2") >> }

PageBodies ==
    {[OnePage(<<>>, <<>>) EXCEPT !.search_status = 403],
     OnePage(<<>>, <<>>),
     OnePage(<<NoId>>, <<>>),
     [OnePage(<<"x", "y">>, <<>>) EXCEPT !.details_status = 500]}
    \cup {OnePage(<<"x", NoId, "y">>, items) : items \in ItemLists}

PageSequences ==
    UNION {{[i \in 1..n |-> [bodies[i] EXCEPT
                                !.nextPageToken = IF i < n THEN i + 1 ELSE NoToken]] :
                bodies \in [1..n -> PageBodies]} : n \in 1..MaxPages}

FetchInit ==
    \E pages \in PageSequences, max_results \in FetchMaxResults :
        /\ now = 0
        /\ API_KEY = TRUE
        /\ connections = <<>>
        /\ favorites = {}
        /\ view_history = <<>>
        /\ DATA_FILE = NoFile
        /\ PREVIEW_FILE = NoFile
        /\ result = [op |-> "fetch_request", pages |-> pages, max_results |-> max_results]

\* fetch_shorts applied to the request
FetchNext ==
    /\ result.op = "fetch_request"
    /\ \E got \in {fetch_shorts(FetchQuery, result.max_results,
                                [q \in {FetchQuery} |-> result.pages])} :
         result' = [op |-> "fetch_shorts", pages |-> result.pages,
                    max_results |-> result.max_results, raised |-> got.raised,
                    calls |-> got.calls, part |-> got.part]
    /\ UNCHANGED <<connections, now, API_KEY, favorites, view_history, DATA_FILE, PREVIEW_FILE>>

SpecFetch == FetchInit /\ [][FetchNext]_vars

(***************************************************************************)
(* db.py called from several threads.  Every call opens its own            *)
(* connection and runs one statement, add_favorite a second one when its   *)
(* INSERT raised IntegrityError; SQLite runs the statements of the         *)
(* connections one at a time, in any order.  MaxCalls calls of             *)
(* add_favorite, remove_favorite and record_view_count start together on   *)
(* a fresh store.                                                          *)
(***************************************************************************)
MaxCalls == 3

Functions == {"add_favorite", "remove_favorite", "record_view_count"}
ConcurrentViewCount == 1000

Called(function, video_id) ==
    [function |-> function, video_id |-> video_id, at |-> "first",
     ret |-> [success |-> FALSE, reactivated |-> FALSE]]

Statement(c, statement, affected) ==
    [op |-> "statement", connection |-> c, statement |-> statement,
     affected |-> affected]

\* add_favorite: cursor.execute(INSERT INTO favorites ...), and the return
\* of the try branch or the entry into the except branch
InsertFavorite(c) ==
    LET call == connections[c]
    IN  /\ call.function = "add_favorite"
        /\ call.at = "first"
        /\ IF ~InsertRaisesIntegrityError(call.video_id)
           THEN /\ favorites' = favorites \cup
                        {[video_id |-> call.video_id, title |-> "t1",
                          created_at |-> now, is_active |-> TRUE]}
                /\ connections' = [connections EXCEPT
                        ![c].at = "returned", ![c].ret.success = TRUE]
                /\ result' = Statement(c, "INSERT INTO favorites", 1)
           ELSE /\ favorites' = favorites
                /\ connections' = [connections EXCEPT ![c].at = "except"]
                /\ result' = Statement(c, "INSERT INTO favorites", 0)
        /\ UNCHANGED <<now, API_KEY, view_history, DATA_FILE, PREVIEW_FILE>>

\* the UPDATE of the except branch without is_active = 1
reactivate_leaving_inactive(c) ==
    LET call == connections[c]
    IN  /\ call.function = "add_favorite"
        /\ call.at = "except"
        /\ favorites' = {IF r.video_id = call.video_id
                         THEN [r EXCEPT !.created_at = now]
                         ELSE r : r \in favorites}
        /\ connections' = [connections EXCEPT
                ![c].at = "returned", ![c].ret.success = TRUE,
                ![c].ret.reactivated = TRUE]
        /\ result' = Statement(c, "UPDATE favorites SET is_active = 1",
                               Cardinality({r \in favorites :
                                               r.video_id = call.video_id}))
        /\ UNCHANGED <<now, API_KEY, view_history, DATA_FILE, PREVIEW_FILE>>

\* add_favorite: UPDATE favorites SET is_active = 1, created_at = ?
UpdateFavorite(c) ==
    LET call == connections[c]
    IN  /\ call.function = "add_favorite"
        /\ call.at = "except"
        /\ favorites' = {IF r.video_id = call.video_id
                         THEN [r EXCEPT !.is_active = TRUE, !.created_at = now]
                         ELSE r : r \in favorites}
        /\ connections' = [connections EXCEPT
                ![c].at = "returned", ![c].ret.success = TRUE,
                ![c].ret.reactivated = TRUE]
        /\ result' = Statement(c, "UPDATE favorites SET is_active = 1",
                               Cardinality({r \in favorites :
                                               r.video_id = call.video_id}))
        /\ UNCHANGED <<now, API_KEY, view_history, DATA_FILE, PREVIEW_FILE>>

\* remove_favorite: UPDATE favorites SET is_active = 0
DeactivateFavorite(c) ==
    LET call == connections[c]
        affected == Cardinality({r \in favorites : r.video_id = call.video_id})
    IN  /\ call.function = "remove_favorite"
        /\ call.at = "first"
        /\ favorites' = {IF r.video_id = call.video_id
                         THEN [r EXCEPT !.is_active = FALSE]
                         ELSE r : r \in favorites}
        /\ connections' = [connections EXCEPT
                ![c].at = "returned", ![c].ret.success = affected > 0]
        /\ result' = Statement(c, "UPDATE favorites SET is_active = 0", affected)
        /\ UNCHANGED <<now, API_KEY, view_history, DATA_FILE, PREVIEW_FILE>>

\* record_view_count: INSERT INTO view_history
InsertViewHistory(c) ==
    LET call == connections[c]
    IN  /\ call.function = "record_view_count"
        /\ call.at = "first"
        /\ view_history' = InsertSnapshot(view_history, call.video_id,
                                          ConcurrentViewCount)
        /\ connections' = [connections EXCEPT
                ![c].at = "returned", ![c].ret.success = TRUE]
        /\ result' = Statement(c, "INSERT INTO view_history", 1)
        /\ UNCHANGED <<now, API_KEY, favorites, DATA_FILE, PREVIEW_FILE>>

ConcurrentInit ==
    \E n \in 1..MaxCalls :
      \E started \in [1..n -> {Called(f, v) : f \in Functions, v \in VideoIds}] :
        /\ now = 0
        /\ API_KEY = TRUE
        /\ favorites = {}
        /\ view_history = <<>>
        /\ DATA_FILE = NoFile
        /\ PREVIEW_FILE = NoFile
        /\ connections = started
        /\ result = [op |-> "init_db"]

ConcurrentNext ==
    \E c \in DOMAIN connections :
        \/ InsertFavorite(c)
        \/ UpdateFavorite(c)
        \/ DeactivateFavorite(c)
        \/ InsertViewHistory(c)

SpecConcurrent == ConcurrentInit /\ [][ConcurrentNext]_vars

(***************************************************************************)
(* parse_iso_duration alone, applied to a string: every string of up to    *)
(* MaxLen characters of the alphabet, and the strings made of a prefix     *)
(* and up to MaxComponents components, in any order and with repetitions.  *)
(***************************************************************************)
MaxLen == 3
MaxComponents == 3

Alphabet == {"P", "p", "T", "t", "H", "h", "M", "S", "s", "D", "0", "1", " "}
DurationPrefixes ==
    {<<"P", "T">>, <<"p", "T">>, <<>>, <<"P">>, <<"P", "1", "D", "T">>, <<" ", "P", "T">>}
DurationComponents ==
    {<<"1", "H">>, <<"1", "2", "h">>, <<"3", "0", "M">>, <<"0", "m">>,
     <<"4", "5", "S">>, <<"0", "7", "s">>, <<"9">>}

RECURSIVE Joined(_)
Joined(strings) ==
    IF strings = <<>> THEN <<>> ELSE Head(strings) \o Joined(Tail(strings))

Durations ==
    UNION {[1..n -> Alphabet] : n \in 0..MaxLen}
    \cup {prefix \o Joined(components) :
            prefix \in DurationPrefixes,
            components \in UNION {[1..n -> DurationComponents] : n \in 0..MaxComponents}}

CodecInit ==
    \E duration \in Durations :
        /\ now = 0
        /\ API_KEY = TRUE
        /\ connections = <<>>
        /\ favorites = {}
        /\ view_history = <<>>
        /\ DATA_FILE = NoFile
        /\ PREVIEW_FILE = NoFile
        /\ result = [op |-> "duration", duration |-> duration]

\* parse_iso_duration applied to the string
CodecNext ==
    /\ result.op = "duration"
    /\ result' = [op |-> "parse_iso_duration", duration |-> result.duration,
                  ret |-> parse_iso_duration(result.duration)]
    /\ UNCHANGED <<connections, now, API_KEY, favorites, view_history,
                   DATA_FILE, PREVIEW_FILE>>

SpecCodec == CodecInit /\ [][CodecNext]_vars

(***************************************************************************)
(* The recency gate, within_days(timestamp, days).  Instants are whole     *)
(* seconds here, the clock showing now hours.  A timestamp is a text that  *)
(* reads as an ISO-8601 instant or does not; days is absent or a positive  *)
(* number of days.  The gate is applied to timestamps around every cutoff  *)
(* and to malformed ones.                                                  *)
(***************************************************************************)
MaxGateDays == 7

SecondsPerDay == HoursPerDay * 60 * 60
now_utc == now * 60 * 60

IsoTimestamp(instant) == [text |-> "iso", instant |-> instant]
Malformed(text) == [text |-> text, instant |-> 0]

\* datetime.fromisoformat: the instant, or None for a text it does not read
fromisoformat(timestamp) ==
    IF timestamp.text = "iso" THEN Some(timestamp.instant) ELSE None

\* a text that does not parse rejected
within_days_rejecting_malformed(timestamp, days) ==
    IF days = None THEN TRUE
    ELSE IF fromisoformat(timestamp) = None THEN FALSE
    ELSE fromisoformat(timestamp)[1] >= now_utc - days[1] * SecondsPerDay

within_days(timestamp, days) ==
    IF days = None THEN TRUE
    ELSE IF fromisoformat(timestamp) = None THEN TRUE
    ELSE fromisoformat(timestamp)[1] >= now_utc - days[1] * SecondsPerDay

GateDays == {None} \cup {Some(d) : d \in 1..MaxGateDays}
GateTimestamps ==
    {Malformed("not-a-date"), Malformed("")}
    \cup {IsoTimestamp(MaxGateDays * SecondsPerDay - d * SecondsPerDay + delta) :
            d \in 1..MaxGateDays, delta \in {-1, 0, 1}}

GateInit ==
    \E timestamp \in GateTimestamps, days \in GateDays :
        /\ now = MaxGateDays * HoursPerDay
        /\ API_KEY = TRUE
        /\ connections = <<>>
        /\ favorites = {}
        /\ view_history = <<>>
        /\ DATA_FILE = NoFile
        /\ PREVIEW_FILE = NoFile
        /\ result = [op |-> "timestamp", timestamp |-> timestamp, days |-> days]

\* within_days applied to the timestamp
GateNext ==
    /\ result.op = "timestamp"
    /\ result' = [op |-> "within_days", timestamp |-> result.timestamp,
                  days |-> result.days,
                  ret |-> within_days(result.timestamp, result.days)]
    /\ UNCHANGED <<connections, now, API_KEY, favorites, view_history,
                   DATA_FILE, PREVIEW_FILE>>

SpecGate == GateInit /\ [][GateNext]_vars

(***************************************************************************)
(* fetch_shorts page by page: one step is one turn of its while loop, or   *)
(* the return when the loop's condition fails; sent holds the requests of  *)
(* the last turn.  The upstream has up to                                  *)
(* MaxPages pages and the cursor of a page may lead to any page, also to   *)
(* an earlier one or to itself, so that a search need not come to an end.  *)
(* The loop keeps running as long as it can (weak fairness).               *)
(***************************************************************************)
PagingBodies ==
    {[OnePage(<<>>, <<>>) EXCEPT !.search_status = 403],
     OnePage(<<NoId>>, <<>>),
     [OnePage(<<"x">>, <<>>) EXCEPT !.details_status = 500],
     OnePage(<<"w">>, << Item("w", P1D, 800, "w1") >>),
     OnePage(<<"x", "y", "z">>, << Item("x", PT30S, 300, "x1"),
                                   Item("y", PT1M1S, 900, "y1"),
                                   Item("z", PT1M, 200, "z1") >>)}

PagingUpstreams ==
    UNION {{[i \in 1..n |-> [bodies[i] EXCEPT !.nextPageToken = cursors[i]]] :
                bodies \in [1..n -> PagingBodies],
                cursors \in [1..n -> {NoToken} \cup 1..n]} : n \in 1..MaxPages}

PagingInit ==
    \E pages \in PagingUpstreams, max_results \in FetchMaxResults :
        /\ now = 0
        /\ API_KEY = TRUE
        /\ connections = <<>>
        /\ favorites = {}
        /\ view_history = <<>>
        /\ DATA_FILE = NoFile
        /\ PREVIEW_FILE = NoFile
        /\ result = [op |-> "fetch_shorts", at |-> "while", pages |-> pages,
                     max_results |-> max_results, collected |-> <<>>,
                     page_token |-> NoToken, sent |-> <<>>, part |-> <<>>]

\* the cursor of the first page sent whatever the page returned
page_token_of_first_page(page) ==
    IF page.nextPageToken = NoToken THEN NoToken ELSE 1

\* page_token = search_data.get("nextPageToken")
NextPageToken(page) == page.nextPageToken

FetchPage ==
    /\ result.op = "fetch_shorts"
    /\ result.at = "while"
    /\ \E page \in {PageOf([q \in {FetchQuery} |-> result.pages], FetchQuery,
                           result.page_token)} :
       \E video_ids \in {SelectSeq(page.videoIds, LAMBDA v : v # NoId)} :
       \E shorts \in {SelectSeq([i \in DOMAIN page.items |->
                                    CandidateOf(page.items[i])], IsShort)} :
       \E collected \in {result.collected \o
                           Truncate(shorts, result.max_results - Len(result.collected))} :
         LET search == [endpoint |-> "search", q |-> FetchQuery,
                        pageToken |-> result.page_token, ids |-> <<>>,
                        status_code |-> page.search_status]
             details == [endpoint |-> "videos", q |-> <<>>, pageToken |-> NoToken,
                         ids |-> video_ids, status_code |-> page.details_status]
             Return(sent, all) ==
                 [result EXCEPT !.at = "returned", !.sent = sent, !.collected = all,
                                !.part = Truncate(SortedByViewCountDesc(all),
                                                  result.max_results)]
         IN  result' =
                 IF Len(result.collected) >= result.max_results
                 THEN Return(<<>>, result.collected)
                 ELSE IF page.search_status # 200
                 THEN [result EXCEPT !.at = "raised", !.sent = <<search>>]
                 ELSE IF video_ids = <<>>
                 THEN Return(<<search>>, result.collected)
                 ELSE IF page.details_status # 200
                 THEN [result EXCEPT !.at = "raised", !.sent = <<search, details>>]
                 ELSE IF NextPageToken(page) = NoToken
                 THEN Return(<<search, details>>, collected)
                 ELSE [result EXCEPT !.sent = <<search, details>>,
                                     !.collected = collected,
                                     !.page_token = NextPageToken(page)]
    /\ UNCHANGED <<connections, now, API_KEY, favorites, view_history,
                   DATA_FILE, PREVIEW_FILE>>

PagingNext == FetchPage

SpecPaging == PagingInit /\ [][PagingNext]_vars /\ WF_vars(PagingNext)

(***************************************************************************)
(* The favourites under refresh: videos are added under either of two      *)
(* titles, removed and added again while the clock advances, snapshots are *)
(* recorded, and both                                                      *)
(* refreshes run against upstreams that fail, that know some of the        *)
(* videos, and that may list in their answer an item for a video that was  *)
(* not asked for.                                                          *)
(***************************************************************************)
TrackingTitles == {"t1", "t2"}

TrackingUpstreams ==
    {[failing |-> F, known |-> [v \in K |-> UpstreamViews[v]], extra |-> extra] :
        F \in {{}, {1}}, K \in SUBSET VideoIds,
        extra \in {<<>>} \cup {<<[id |-> v, viewCount |-> UpstreamViews[v]]>> :
                                   v \in VideoIds}}

TrackingInit == Init

TrackingNext ==
    \/ Tick(TrackingWindow)
    \/ \E v \in VideoIds, t \in TrackingTitles : add_favorite(v, t)
    \/ \E v \in VideoIds : remove_favorite(v)
    \/ \E v \in VideoIds :
            Len(view_history) < MaxSnapshots /\ record_view_count(v, UpstreamViews[v])
    \/ \E u \in TrackingUpstreams : app_refresh_favorites(u, MaxSnapshots)
    \/ \E u \in TrackingUpstreams : script_refresh_favorites(u, MaxSnapshots)

SpecTracking == TrackingInit /\ [][TrackingNext]_vars

(***************************************************************************)
(* Adding again: every video is added, and added again, while the clock    *)
(* advances; the first video is never removed, so that an add of it after  *)
(* its first one meets an active row, and the others are removed and added *)
(* again.                                                                  *)
(***************************************************************************)
NeverRemoved == Minimum(VideoIds)

ReaddInit == Init

ReaddNext ==
    \/ \E d \in TickSteps : Tick(d)
    \/ \E v \in VideoIds, t \in Titles : add_favorite(v, t)
    \/ \E v \in VideoIds \ {NeverRemoved} : remove_favorite(v)

SpecReadd == ReaddInit /\ [][ReaddNext]_vars

(***************************************************************************)
(* Vocabulary of the properties.                                           *)
(***************************************************************************)
RowsOf(v) == {r \in favorites : r.video_id = v}
IdsIn(list) == {list[i].video_id : i \in DOMAIN list}
Occurrences(list, v) == Cardinality({i \in DOMAIN list : list[i].video_id = v})
Reverse(s) == [i \in DOMAIN s |-> s[Len(s) + 1 - i]]
SnapshotsOf(v) == SelectSeq(view_history, LAMBDA h : h.video_id = v)
AgeInHours(r) == now - r.created_at
FourteenDays == 14 * HoursPerDay
\* The rows a step appends to view_history
Appended == SubSeq(view_history', Len(view_history) + 1, Len(view_history'))
IsRefresh(r) == r.op \in {"app_refresh", "script_refresh"}
LookedUp(r) == UNION {Range(r.lookups[k]) : k \in DOMAIN r.lookups}

(***************************************************************************)
(* C1.  Favourite lifecycle: once a video has been added and removed, the  *)
(* active list does not contain it; adding it again does not fail, the     *)
(* result is marked reactivated, and the video is in the active list       *)
(* exactly once.                                                           *)
(***************************************************************************)
C1_Lifecycle ==
    /\ [](result.op = "remove_favorite" =>
            \A l \in get_favorites(FALSE) : result.video_id \notin IdsIn(l))
    /\ [][\A v \in VideoIds :
            ( /\ \E r \in RowsOf(v) : ~r.is_active
              /\ result'.op = "add_favorite"
              /\ result'.video_id = v )
            => /\ result'.ret.success
               /\ "reactivated" \in DOMAIN result'.ret
               /\ result'.ret.reactivated
               /\ \A l \in get_favorites(FALSE)' : Occurrences(l, v) = 1]_vars

C1_Witness ==
    /\ result.op = "add_favorite"
    /\ "reactivated" \in DOMAIN result.ret
    /\ \E l \in get_favorites(FALSE) : Occurrences(l, result.video_id) = 1

(***************************************************************************)
(* C2.  Soft delete: a video that was added has exactly one row from then  *)
(* on, and the list with the inactive ones shows it; remove deletes no     *)
(* row and changes nothing but is_active, which it sets to false; the      *)
(* default list is exactly the rows whose is_active is true.               *)
(***************************************************************************)
C2_SoftDelete ==
    /\ [](\A v \in VideoIds : Cardinality(RowsOf(v)) <= 1)
    /\ [](result.op = "add_favorite" => Cardinality(RowsOf(result.video_id)) = 1)
    /\ [][\A v \in VideoIds :
            Cardinality(RowsOf(v)) = 1 => Cardinality(RowsOf(v)') = 1]_vars
    /\ [](\A l \in get_favorites(TRUE) :
            Range(l) = favorites /\ Len(l) = Cardinality(favorites))
    /\ [](\A l \in get_favorites(FALSE) :
            /\ Range(l) = {r \in favorites : r.is_active}
            /\ Len(l) = Cardinality({r \in favorites : r.is_active}))
    /\ [][result'.op = "remove_favorite" =>
            /\ \A r \in favorites :
                 IF r.video_id = result'.video_id
                 THEN [r EXCEPT !.is_active = FALSE] \in favorites'
                 ELSE r \in favorites'
            /\ Cardinality(favorites') = Cardinality(favorites)]_vars

C2_Witness ==
    /\ result.op = "remove_favorite"
    /\ result.ret.success
    /\ \E r \in RowsOf(result.video_id) : ~r.is_active
    /\ \E r \in favorites : r.is_active

(***************************************************************************)
(* C3.  The snapshot history is append-only: every step leaves the rows    *)
(* that were there as they were, and the history of a video holds all its  *)
(* snapshots, also when the video has been removed or has left the         *)
(* tracking window.                                                        *)
(***************************************************************************)
C3_AppendOnly ==
    /\ [][/\ Len(view_history') >= Len(view_history)
          /\ SubSeq(view_history', 1, Len(view_history)) = view_history]_vars
    /\ [](\A v \in VideoIds : \A l \in get_view_history(v, DefaultLimit) :
            /\ Range(l) = Range(SnapshotsOf(v))
            /\ Len(l) = Len(SnapshotsOf(v)))

C3_Witness ==
    /\ result.op = "remove_favorite"
    /\ \E r \in RowsOf(result.video_id) : ~r.is_active /\ AgeInHours(r) > FourteenDays
    /\ \E l \in get_view_history(result.video_id, DefaultLimit) : Len(l) = 2

(***************************************************************************)
(* C4.  History ordering: history(v, limit) is the min(n, limit) most      *)
(* recently appended snapshots of v, the last appended first, and nothing  *)
(* else.                                                                   *)
(***************************************************************************)
C4_ReverseInsertionOrder ==
    \A v \in VideoIds, limit \in Limits :
        \A l \in get_view_history(v, limit) :
            LET newest_first == Reverse(SnapshotsOf(v))
            IN  l = SubSeq(newest_first, 1, Min(Len(newest_first), limit))

\* What does hold: the answer is min(n, limit) snapshots of v, each once, in
\* descending order of recorded_at, none left out being more recent than one
\* returned; it is the reverse insertion order when no two snapshots of v
\* carry the same recorded_at.
HistoryByRecordedAt ==
    \A v \in VideoIds, limit \in Limits :
        \A l \in get_view_history(v, limit) :
            LET all == SnapshotsOf(v)
                newest_first == Reverse(all)
            IN  /\ Len(l) = Min(Len(all), limit)
                /\ Range(l) \subseteq Range(all)
                /\ \A i, j \in DOMAIN l : i < j =>
                        l[i].id # l[j].id /\ l[i].recorded_at >= l[j].recorded_at
                /\ \A h \in Range(all) \ Range(l) :
                        \A i \in DOMAIN l : h.recorded_at <= l[i].recorded_at
                /\ (\A i, j \in DOMAIN all : i # j => all[i].recorded_at # all[j].recorded_at)
                        => l = SubSeq(newest_first, 1, Min(Len(newest_first), limit))

(***************************************************************************)
(* C5.  list_trackable() is exactly the favourites that are active and     *)
(* were created no more than 14 days before now.                           *)
(***************************************************************************)
C5_Trackable ==
    \A l \in get_active_favorites_for_tracking :
        /\ Range(l) = {r \in favorites : r.is_active /\ AgeInHours(r) <= FourteenDays}
        /\ \A i, j \in DOMAIN l : i # j => l[i] # l[j]

C5_Witness ==
    /\ \E r \in favorites : r.is_active /\ AgeInHours(r) = FourteenDays
    /\ \E r \in favorites : r.is_active /\ AgeInHours(r) > FourteenDays
    /\ \E l \in get_active_favorites_for_tracking : Len(l) = 1

(***************************************************************************)
(* C6.  Reactivation restarts the tracking clock: adding an inactive       *)
(* favourite, whatever its age, sets created_at to the time of the add,    *)
(* so the video is trackable right after it; and an active favourite is    *)
(* trackable for the 14 days that follow its created_at.                   *)
(***************************************************************************)
C6_ReactivationRestartsClock ==
    /\ [][\A v \in VideoIds :
            ( /\ \E r \in RowsOf(v) : ~r.is_active
              /\ result'.op = "add_favorite"
              /\ result'.video_id = v )
            => /\ \A r \in RowsOf(v)' : r.created_at = now'
               /\ \A l \in get_active_favorites_for_tracking' : v \in IdsIn(l)]_vars
    /\ [](\A r \in favorites :
            (r.is_active /\ now <= r.created_at + FourteenDays)
            => \A l \in get_active_favorites_for_tracking : r.video_id \in IdsIn(l))

C6_Witness ==
    /\ result.op = "add_favorite"
    /\ "reactivated" \in DOMAIN result.ret
    /\ now > FourteenDays
    /\ \E r \in RowsOf(result.video_id) : r.created_at = now
    /\ \E l \in get_active_favorites_for_tracking : result.video_id \in IdsIn(l)

(***************************************************************************)
(* C7.  Refresh accounting: when POST /favorites/refresh completes, total  *)
(* is the number of trackable favourites; each of them is looked up in     *)
(* exactly one batch of at most 50; each one with a returned statistics    *)
(* entry gets exactly one new snapshot and is counted in updated; each     *)
(* one without is listed once in missing and gets no snapshot; and         *)
(* updated + |missing| = total.                                            *)
(***************************************************************************)
TrackableIds ==
    {r.video_id : r \in {q \in favorites : q.is_active /\ AgeInHours(q) <= FourteenDays}}

AccountsFor(ids, r) ==
    /\ r.ret.total = Cardinality(ids)
    /\ \A k \in DOMAIN r.lookups : Len(r.lookups[k]) <= 50
    /\ \A v \in ids :
         Cardinality({k \in DOMAIN r.lookups : v \in Range(r.lookups[k])}) = 1
    /\ LookedUp(r) = ids
    /\ \A v \in ids \cap r.returned :
         /\ Cardinality({i \in DOMAIN Appended : Appended[i].video_id = v}) = 1
         /\ v \notin Range(r.ret.missing)
    /\ \A v \in ids \ r.returned :
         /\ Cardinality({i \in DOMAIN r.ret.missing : r.ret.missing[i] = v}) = 1
         /\ \A i \in DOMAIN Appended : Appended[i].video_id # v
    /\ r.ret.updated = Cardinality(ids \cap r.returned)
    /\ Len(Appended) = r.ret.updated
    /\ SubSeq(view_history', 1, Len(view_history)) = view_history
    /\ r.ret.updated + Len(r.ret.missing) = r.ret.total

C7_RefreshAccounting ==
    [][(result'.op = "app_refresh" /\ result'.status = 200)
        => AccountsFor(TrackableIds, result')]_vars

\* What does hold: the same accounting over the favourites the handler
\* reads, which are all the active ones.
RefreshAccountingOverActive ==
    [][(result'.op = "app_refresh" /\ result'.status = 200)
        => AccountsFor({r.video_id : r \in {q \in favorites : q.is_active}}, result')]_vars

(***************************************************************************)
(* C8.  Refresh respects the tracking window: an active favourite created  *)
(* more than 14 days before now is not counted in total, is not looked up  *)
(* upstream and receives no snapshot from a refresh.                       *)
(***************************************************************************)
TotalOf(r) == IF r.op = "app_refresh" THEN r.ret.total ELSE r.total
Counted(r) == (r.op = "app_refresh" /\ r.status = 200) \/ (r.op = "script_refresh" /\ r.exit = 0)

C8_RefreshRespectsWindow ==
    [][IsRefresh(result') =>
        /\ Counted(result') => TotalOf(result') = Cardinality(TrackableIds)
        /\ \A r \in favorites :
             (r.is_active /\ AgeInHours(r) > FourteenDays)
             => /\ r.video_id \notin LookedUp(result')
                /\ \A i \in DOMAIN Appended : Appended[i].video_id # r.video_id]_vars

(***************************************************************************)
(* C9.  Refresh failure is a partial commit: when the lookup of batch k    *)
(* is answered with a non-2xx status the refresh aborts with an error      *)
(* there; the snapshots of batches 1..k-1 stay in the history, none is     *)
(* appended for batch k or a later one, and the failure is not skipped.    *)
(***************************************************************************)
Aborted(r) == IF r.op = "app_refresh" THEN r.status = 500 ELSE r.exit # 0
FirstOf(S) == CHOOSE k \in S : \A j \in S : k <= j

C9_RefreshFailurePartialCommit ==
    [][(IsRefresh(result') /\ result'.errors # {}) =>
        LET k == FirstOf(result'.errors)
            earlier == UNION {Range(result'.lookups[j]) : j \in 1..(k - 1)}
        IN  /\ Aborted(result')
            /\ Len(result'.lookups) = k
            /\ SubSeq(view_history', 1, Len(view_history)) = view_history
            /\ \A i \in DOMAIN Appended : Appended[i].video_id \in earlier
            /\ \A v \in earlier \cap result'.returned :
                 \E i \in DOMAIN Appended : Appended[i].video_id = v]_vars

\* What does hold of POST /favorites/refresh alone.
AppRefreshFailurePartialCommit ==
    [][(result'.op = "app_refresh" /\ result'.errors # {}) =>
        LET k == FirstOf(result'.errors)
            earlier == UNION {Range(result'.lookups[j]) : j \in 1..(k - 1)}
        IN  /\ Aborted(result')
            /\ Len(result'.lookups) = k
            /\ SubSeq(view_history', 1, Len(view_history)) = view_history
            /\ \A i \in DOMAIN Appended : Appended[i].video_id \in earlier
            /\ \A v \in earlier \cap result'.returned :
                 \E i \in DOMAIN Appended : Appended[i].video_id = v]_vars

(***************************************************************************)
(* C10.  Merge deduplication: whatever the keywords and whatever the       *)
(* Collector returns for each of them, also when several keywords return   *)
(* the same video or one keyword returns it twice, the merged result of a  *)
(* collection, which is what the artifacts hold, contains each video_id at *)
(* most once.                                                              *)
(***************************************************************************)
UniqueIds(records) ==
    \A i, j \in DOMAIN records : i # j => records[i].video_id # records[j].video_id
PartsWith(v) ==
    {k \in DOMAIN result.parts : \E i \in DOMAIN result.parts[k] :
                                    result.parts[k][i].video_id = v}

C10_MergeDeduplication ==
    /\ UniqueIds(DATA_FILE.records)
    /\ UniqueIds(PREVIEW_FILE.records)
    /\ (result.op = "collect" /\ result.status = 200) =>
         /\ result.ret.total = Len(DATA_FILE.records)
         /\ \A k \in DOMAIN result.parts : \A i \in DOMAIN result.parts[k] :
              LET v == result.parts[k][i].video_id
              IN  Cardinality({j \in DOMAIN DATA_FILE.records :
                                 DATA_FILE.records[j].video_id = v}) <= 1

C10_Witness ==
    /\ result.op = "collect"
    /\ result.status = 200
    /\ \E v \in {"x"} :
         /\ Cardinality(PartsWith(v)) = 2
         /\ \E k \in PartsWith(v) :
              Cardinality({i \in DOMAIN result.parts[k] : result.parts[k][i].video_id = v}) = 2
         /\ Cardinality({j \in DOMAIN DATA_FILE.records :
                            DATA_FILE.records[j].video_id = v}) = 1
    /\ Len(DATA_FILE.records) > 1

(***************************************************************************)
(* C11.  Merge tie-break: after all keywords are processed the merge       *)
(* mapping holds, for every video returned by at least one keyword, the    *)
(* first copy met (in keyword order, then in the order of the keyword's    *)
(* result) among the copies with the most views: a later copy takes the    *)
(* place of the stored one only with strictly more views.                  *)
(***************************************************************************)
RECURSIVE Concat(_)
Concat(lists) == IF lists = <<>> THEN <<>> ELSE Head(lists) \o Concat(Tail(lists))
\* The candidates with an id, in the order the merge meets them
Encountered(r) == SelectSeq(Concat(r.parts), LAMBDA c : c.video_id # NoId)
CopiesOf(all, v) == {i \in DOMAIN all : all[i].video_id = v}
MostViews(all, v) == Maximum({all[i].view_count : i \in CopiesOf(all, v)})
FirstWithMostViews(all, v) ==
    all[Minimum({i \in CopiesOf(all, v) : all[i].view_count = MostViews(all, v)})]

C11_MergeTieBreak ==
    (result.op = "collect" /\ result.status = 200) =>
        LET all == Encountered(result)
        IN  /\ DictKeys(result.merged) = {all[i].video_id : i \in DOMAIN all}
            /\ \A i, j \in DOMAIN result.merged :
                 i # j => result.merged[i].key # result.merged[j].key
            /\ \A v \in DictKeys(result.merged) :
                 DictGet(result.merged, v) = FirstWithMostViews(all, v)

C11_Witness ==
    /\ result.op = "collect"
    /\ result.status = 200
    /\ LET all == Encountered(result)
       IN  \E i, j, k \in DOMAIN all :
             /\ i < j
             /\ j < k
             /\ all[i].video_id = all[j].video_id
             /\ all[j].video_id = all[k].video_id
             /\ all[i].view_count < all[j].view_count
             /\ all[j].view_count = all[k].view_count
             /\ all[j] # all[k]
             /\ DictGet(result.merged, all[j].video_id) = all[j]

(***************************************************************************)
(* C12.  Merge output: a successful collection saves and reports the       *)
(* deduplicated union of the keywords' candidates, sorted by view_count    *)
(* descending and truncated to max_results: min(max_results, number of     *)
(* distinct videos) records, each the merged copy of its video, and no     *)
(* video left out has strictly more views than one kept.  Disjoint sets    *)
(* of 3 and 2 candidates with max_results >= 5 give all 5.                 *)
(***************************************************************************)
SortedDesc(records) ==
    \A i, j \in DOMAIN records : i < j => records[i].view_count >= records[j].view_count

C12_MergeOutput ==
    (result.op = "collect" /\ result.status = 200) =>
        LET all == Encountered(result)
            ids == {all[i].video_id : i \in DOMAIN all}
            records == DATA_FILE.records
        IN  /\ Len(records) = Min(result.max_results, Cardinality(ids))
            /\ result.ret.total = Len(records)
            /\ UniqueIds(records)
            /\ SortedDesc(records)
            /\ \A i \in DOMAIN records :
                 /\ records[i].video_id \in ids
                 /\ records[i] = FirstWithMostViews(all, records[i].video_id)
            /\ \A v \in ids \ IdsIn(records) : \A i \in DOMAIN records :
                 MostViews(all, v) <= records[i].view_count
            /\ (Len(result.parts) = 2 /\ Len(result.parts[1]) = 3
                /\ Len(result.parts[2]) = 2 /\ Cardinality(ids) = 5
                /\ result.max_results >= 5) => Len(records) = 5

C12_Witness ==
    /\ result.op = "collect"
    /\ result.status = 200
    /\ Len(result.parts) = 2
    /\ Len(result.parts[1]) = 3
    /\ Len(result.parts[2]) = 2
    /\ IdsIn(result.parts[1]) \cap IdsIn(result.parts[2]) = {}
    /\ result.max_results >= 5
    /\ Len(DATA_FILE.records) = 5
    /\ DATA_FILE.records[1].view_count > DATA_FILE.records[5].view_count

(***************************************************************************)
(* C13.  Validation precedes all effects: a collect request with no        *)
(* keyword in keyword_list and none in keywords, with max_results outside  *)
(* [1, 10000], or with negative days is answered 400 before any upstream   *)
(* call and with the artifacts left as they were; an add_favorite request  *)
(* without video_id is answered 400 with the favourites and the history    *)
(* left as they were.                                                      *)
(***************************************************************************)
Blank(text) == \A i \in DOMAIN text : text[i] \in Whitespace
NoKeywords(payload) ==
    /\ \A i \in DOMAIN payload.keyword_list : Blank(payload.keyword_list[i])
    /\ Blank(payload.keywords)
OutOfRange(payload) ==
    payload.max_results # None /\ payload.max_results[1] \notin 1..10000
NegativeDays(payload) == payload.days # None /\ payload.days[1] < 0

RejectedBeforeEffects ==
    /\ result'.status = 400
    /\ DOMAIN result'.ret = {"error"}
    /\ result'.calls = <<>>
    /\ UNCHANGED <<DATA_FILE, PREVIEW_FILE, favorites, view_history>>
AddRejectedWithoutIdentity ==
    (result'.op = "api_add_favorite" /\ result'.payload.video_id = None)
    => /\ result'.status = 400
       /\ UNCHANGED <<favorites, view_history, DATA_FILE, PREVIEW_FILE>>

C13_ValidationPrecedesEffects ==
    [][/\ ( /\ result'.op = "collect"
            /\ \/ NoKeywords(result'.payload)
               \/ OutOfRange(result'.payload)
               \/ NegativeDays(result'.payload) ) => RejectedBeforeEffects
       /\ AddRejectedWithoutIdentity]_vars

\* As amended: a max_results of 0 is not refused, it is taken as the default
\* like an absent one.
C13_ValidationExceptZero ==
    [][/\ ( /\ result'.op = "collect"
            /\ \/ NoKeywords(result'.payload)
               \/ OutOfRange(result'.payload) /\ result'.payload.max_results # Some(0)
               \/ NegativeDays(result'.payload) ) => RejectedBeforeEffects
       /\ AddRejectedWithoutIdentity]_vars

C13_Witness ==
    /\ result.op = "collect"
    /\ result.status = 400
    /\ result.payload.max_results = Some(MaxResultsLimit + 1)
    /\ ~NoKeywords(result.payload)
    /\ DATA_FILE.exists
    /\ DATA_FILE.records = EarlierRecords
    /\ favorites # {}
    /\ view_history # <<>>

(***************************************************************************)
(* C14.  No partial-keyword resilience: when the Collector fails for a     *)
(* keyword of the list, also for the last one after earlier ones           *)
(* succeeded, the collection answers 500 with the error alone, makes no    *)
(* call for the remaining keywords, and leaves both artifacts as they      *)
(* were.                                                                   *)
(***************************************************************************)
FailedCalls(r) == {i \in DOMAIN r.calls : r.calls[i].status_code # 200}
\* The queries searched for, in the order of their first search
Searched(r) ==
    LET searches == SelectSeq(r.calls, LAMBDA c : c.endpoint = "search")
        places == [i \in DOMAIN searches |-> i]
        firsts == SelectSeq(places, LAMBDA i :
                      \A j \in 1..(i - 1) : searches[j].q # searches[i].q)
    IN  [i \in DOMAIN firsts |-> searches[firsts[i]].q]

C14_NoPartialKeywordResilience ==
    [][(result'.op = "collect" /\ FailedCalls(result') # {}) =>
        /\ result'.status = 500
        /\ DOMAIN result'.ret = {"error"}
        /\ FailedCalls(result') = {Len(result'.calls)}
        /\ Len(Searched(result')) = Len(result'.parts) + 1
        /\ UNCHANGED <<DATA_FILE, PREVIEW_FILE>>]_vars

C14_Witness ==
    /\ result.op = "collect"
    /\ result.status = 500
    /\ Len(result.parts) = 1
    /\ result.parts[1] # <<>>
    /\ Len(KeywordListOf(result.payload.keyword_list)) = 2
    /\ FailedCalls(result) # {}
    /\ DATA_FILE = FileOf(EarlierRecords)
    /\ PREVIEW_FILE = FileOf(Truncate(EarlierRecords, PreviewSize))

(***************************************************************************)
(* C15.  Collector output: whatever the upstream answers, a list returned  *)
(* by the Collector has at most max_results candidates, is sorted by       *)
(* view_count descending, and holds only candidates, taken from the        *)
(* details of the pages, whose duration is over 0 and at most 60 seconds:  *)
(* a detail record whose duration decodes to 0 or to more than 60 is in    *)
(* no list.                                                                *)
(***************************************************************************)
ItemsOf(pages) == UNION {Range(pages[i].items) : i \in DOMAIN pages}
\* The durations of the feeds that are no short's: 61 seconds, and a text
\* that is no duration
NotShort == {PT1M1S, P1D}

C15_CollectorOutput ==
    (result.op = "fetch_shorts" /\ result.raised = "") =>
        /\ Len(result.part) <= result.max_results
        /\ SortedDesc(result.part)
        /\ \A i \in DOMAIN result.part :
             /\ result.part[i].duration_seconds > 0
             /\ result.part[i].duration_seconds <= 60
             /\ \E item \in ItemsOf(result.pages) :
                  /\ item.title = result.part[i].title
                  /\ item.id = result.part[i].video_id
                  /\ item.viewCount = result.part[i].view_count
                  /\ item.duration \notin NotShort

C15_Witness ==
    /\ result.op = "fetch_shorts"
    /\ result.raised = ""
    /\ Len(result.part) = 2
    /\ result.part[1].view_count > result.part[2].view_count
    /\ \E item \in ItemsOf(result.pages) : item.duration = P1D
    /\ \E item \in ItemsOf(result.pages) : item.duration = PT1M1S
    /\ \E i \in DOMAIN result.part : result.part[i].duration_seconds = 60

(***************************************************************************)
(* C16.  Collector hard failure: when the search call or the details call  *)
(* of a page is answered with a status other than 200, the Collector       *)
(* raises an error at that call: it returns no candidate, not even one     *)
(* accepted from an earlier page, makes no further call, and does not      *)
(* pass over the failing page.                                             *)
(***************************************************************************)
C16_CollectorHardFailure ==
    result.op = "fetch_shorts" =>
        /\ FailedCalls(result) # {} =>
             /\ result.raised # ""
             /\ result.part = <<>>
             /\ FailedCalls(result) = {Len(result.calls)}
        /\ result.raised # "" => FailedCalls(result) # {}
        /\ \A i \in DOMAIN result.calls :
             LET call == result.calls[i]
                 page == PageOf([q \in {FetchQuery} |-> result.pages], FetchQuery,
                                IF call.endpoint = "search" THEN call.pageToken
                                ELSE result.calls[i - 1].pageToken)
             IN  call.status_code = IF call.endpoint = "search"
                                    THEN page.search_status ELSE page.details_status

C16_Witness ==
    /\ result.op = "fetch_shorts"
    /\ result.raised # ""
    /\ result.part = <<>>
    /\ Len(result.calls) >= 3
    /\ \E item \in Range(result.pages[1].items) : item.duration = PT30S
    /\ result.pages[2].search_status = 200
    /\ result.pages[2].details_status # 200

(***************************************************************************)
(* C17.  remove reports success exactly when the video has a row, active   *)
(* or already inactive, and that row is then inactive; for a video that    *)
(* was never added it reports success = false and leaves the favourites    *)
(* and every history as they were.                                         *)
(***************************************************************************)
C17_RemoveReportsRow ==
    [][result'.op = "remove_favorite" =>
        /\ result'.ret.success <=> RowsOf(result'.video_id) # {}
        /\ RowsOf(result'.video_id) # {} =>
             /\ \E r \in favorites' : r.video_id = result'.video_id
             /\ \A r \in favorites' : r.video_id = result'.video_id => ~r.is_active
        /\ RowsOf(result'.video_id) = {} =>
             /\ ~result'.ret.success
             /\ UNCHANGED <<favorites, view_history>>]_vars

C17_Witness ==
    /\ result.op = "remove_favorite"
    /\ ~result.ret.success
    /\ RowsOf(result.video_id) = {}
    /\ \E r \in favorites : r.is_active
    /\ Len(SnapshotsOf(result.video_id)) > 0

(***************************************************************************)
(* C18.  record_view_count checks nothing and changes no favourite: it     *)
(* succeeds and appends exactly one snapshot, of the video and the count   *)
(* it was given, stamped now, whether the video's favourite is active,     *)
(* inactive or was never added, and every favourite row stays as it was.   *)
(***************************************************************************)
C18_RecordWithoutExistenceCheck ==
    [][result'.op = "record_view_count" =>
        /\ result'.ret.success
        /\ SubSeq(view_history', 1, Len(view_history)) = view_history
        /\ Len(Appended) = 1
        /\ Appended[1].video_id = result'.video_id
        /\ Appended[1].view_count \in ViewCounts
        /\ Appended[1].recorded_at = now
        /\ result'.ret.recorded_at = now
        /\ UNCHANGED favorites]_vars

C18_Witness ==
    /\ result.op = "record_view_count"
    /\ result.ret.success
    /\ RowsOf(result.video_id) = {}
    /\ Len(SnapshotsOf(result.video_id)) = 1
    /\ \E r \in favorites : ~r.is_active

(***************************************************************************)
(* C19.  The favourite with its latest statistics is absent exactly when   *)
(* the video has no row, and GET /favorites/<video_id>/history then        *)
(* answers 404, also when snapshots of the video exist; otherwise, for an  *)
(* active or an inactive favourite, it is that row joined with the         *)
(* snapshot that the history of the video returns first, the snapshot      *)
(* fields being absent when the video has no history.                      *)
(***************************************************************************)
RowPartOf(joined) ==
    [video_id |-> joined.video_id, title |-> joined.title,
     created_at |-> joined.created_at, is_active |-> joined.is_active]

C19_LatestWithFavorite ==
    \A v \in VideoIds :
        /\ \A response \in get_favorite_history(v) :
             response.status = IF RowsOf(v) = {} THEN 404 ELSE 200
        /\ \A favorite \in get_favorite_with_latest_stats(v) :
             /\ favorite = None <=> RowsOf(v) = {}
             /\ favorite # None =>
                  /\ RowPartOf(favorite[1]) \in RowsOf(v)
                  /\ \A history \in get_view_history(v, DefaultLimit) :
                       IF history = <<>>
                       THEN /\ favorite[1].view_count = None
                            /\ favorite[1].last_updated = None
                       ELSE /\ favorite[1].view_count = Some(history[1].view_count)
                            /\ favorite[1].last_updated = Some(history[1].recorded_at)

\* What does hold: absence and the 404 are as stated, and the joined snapshot
\* is a snapshot of the video than which none is more recent, so it is the
\* first of the history whenever the latest recorded_at is of one snapshot.
LatestByRecordedAt ==
    \A v \in VideoIds :
        /\ \A response \in get_favorite_history(v) :
             response.status = IF RowsOf(v) = {} THEN 404 ELSE 200
        /\ \A favorite \in get_favorite_with_latest_stats(v) :
             /\ favorite = None <=> RowsOf(v) = {}
             /\ favorite # None =>
                  /\ RowPartOf(favorite[1]) \in RowsOf(v)
                  /\ Len(SnapshotsOf(v)) = 0 =>
                       favorite[1].view_count = None /\ favorite[1].last_updated = None
                  /\ Len(SnapshotsOf(v)) > 0 =>
                       \E h \in Range(SnapshotsOf(v)) :
                          /\ favorite[1].view_count = Some(h.view_count)
                          /\ favorite[1].last_updated = Some(h.recorded_at)
                          /\ \A o \in Range(SnapshotsOf(v)) : h.recorded_at >= o.recorded_at
                  /\ \A history \in get_view_history(v, DefaultLimit) :
                       (/\ history # <<>>
                        /\ \A i \in DOMAIN history :
                             i > 1 => history[i].recorded_at < history[1].recorded_at)
                       => /\ favorite[1].view_count = Some(history[1].view_count)
                          /\ favorite[1].last_updated = Some(history[1].recorded_at)

(***************************************************************************)
(* C20.  POST /favorites with a video_id answers 200 with a success        *)
(* payload and leaves the favourite active and listed; when a view_count   *)
(* is given, exactly one snapshot with that count is appended for the      *)
(* video, none of its snapshots being more recent, and when it is not      *)
(* given no snapshot is appended.                                          *)
(***************************************************************************)
C20_AddFavoriteOnSurface ==
    [][(result'.op = "api_add_favorite" /\ result'.payload.video_id # None) =>
        /\ result'.status = 200
        /\ result'.ret.success
        /\ \E r \in favorites' : r.video_id = result'.payload.video_id[1] /\ r.is_active
        /\ \A l \in get_favorites(FALSE)' :
               \E i \in DOMAIN l : l[i].video_id = result'.payload.video_id[1]
        /\ IF result'.payload.view_count = None
           THEN UNCHANGED view_history
           ELSE /\ SubSeq(view_history', 1, Len(view_history)) = view_history
                /\ Len(Appended) = 1
                /\ Appended[1].video_id = result'.payload.video_id[1]
                /\ Appended[1].view_count = result'.payload.view_count[1]
                /\ \A i \in DOMAIN view_history :
                       view_history[i].recorded_at <= Appended[1].recorded_at]_vars

(***************************************************************************)
(* C21.  Persisted artifacts: a successful collection leaves in the full   *)
(* file exactly the merged records of that run and in the preview file     *)
(* exactly their first min(3, total), nothing of what the files held       *)
(* before remaining; the response reports total = saved = the number of    *)
(* records and preview_count = min(3, total).                              *)
(***************************************************************************)
C21_PersistedArtifacts ==
    [][(result'.op = "collect" /\ result'.status = 200) =>
        LET merged == DictValues(result'.merged)
            records == DATA_FILE'.records
        IN  /\ DATA_FILE'.exists /\ PREVIEW_FILE'.exists
            /\ Len(records) = Min(result'.max_results, Len(merged))
            /\ Range(records) \subseteq Range(merged)
            /\ UniqueIds(records)
            /\ SortedDesc(records)
            /\ \A m \in Range(merged) \ Range(records) : \A r \in Range(records) :
                   m.view_count <= r.view_count
            /\ PREVIEW_FILE'.records = SubSeq(records, 1, Min(3, Len(records)))
            /\ result'.ret.total = Len(records)
            /\ result'.ret.saved = Len(records)
            /\ result'.ret.preview_count = Min(3, Len(records))]_vars

C21_Witness ==
    /\ result.op = "collect"
    /\ result.status = 200
    /\ result.ret.total > 3
    /\ Len(PREVIEW_FILE.records) = 3
    /\ Len(DATA_FILE.records) = result.ret.total
    /\ Range(DATA_FILE.records) \cap Range(EarlierRecords) = {}

(***************************************************************************)
(* C22.  Row-level safety under concurrency: however the statements of     *)
(* concurrent add, remove and record calls interleave, no call fails (a    *)
(* call that has not returned can always run its next statement, add and   *)
(* record return success, and the UPDATE of a reactivating add finds its   *)
(* row), a video never has more than one row, every snapshot of a returned *)
(* record call is in the history, and the statement of an add leaves the   *)
(* row active and that of a remove leaves it inactive, no other statement  *)
(* touching is_active: the final is_active is the one written by the last  *)
(* add or remove statement.  On a fresh store the adds of a video are one  *)
(* fresh insert and reactivations.                                         *)
(***************************************************************************)
Returned(function, v) ==
    {c \in DOMAIN connections :
        /\ connections[c].function = function
        /\ connections[c].video_id = v
        /\ connections[c].at = "returned"}
\* The connection c runs a statement in this step
Runs(c) == connections'[c].at # connections[c].at

C22_ConcurrentRowSafety ==
    /\ []((\E c \in DOMAIN connections : connections[c].at # "returned")
            => ENABLED ConcurrentNext)
    /\ [](\A v \in VideoIds :
            /\ Cardinality(RowsOf(v)) <= 1
            /\ Len(SnapshotsOf(v)) = Cardinality(Returned("record_view_count", v))
            /\ \A c \in Returned("add_favorite", v) \cup Returned("record_view_count", v) :
                   connections[c].ret.success
            /\ \A c \in Returned("add_favorite", v) : RowsOf(v) # {}
            /\ Cardinality({c \in Returned("add_favorite", v) :
                               ~connections[c].ret.reactivated})
                 = IF RowsOf(v) = {} THEN 0 ELSE 1)
    /\ [][\A c \in DOMAIN connections : Runs(c) =>
            LET call == connections'[c]
                before == {r \in favorites : r.video_id = call.video_id}
                after == {r \in favorites' : r.video_id = call.video_id}
            IN  /\ \A o \in DOMAIN connections : o # c => ~Runs(o)
                /\ {r \in favorites : r.video_id # call.video_id}
                     = {r \in favorites' : r.video_id # call.video_id}
                /\ SubSeq(view_history', 1, Len(view_history)) = view_history
                /\ (call.function = "add_favorite" /\ call.at = "returned") =>
                       /\ Cardinality(after) = 1
                       /\ \A r \in after : r.is_active /\ r.created_at = now
                       /\ call.ret.reactivated <=> before # {}
                /\ (call.function = "add_favorite" /\ call.at # "returned") =>
                       before # {} /\ UNCHANGED favorites
                /\ call.function = "remove_favorite" =>
                       /\ call.at = "returned"
                       /\ Cardinality(after) = Cardinality(before)
                       /\ \A r \in after : ~r.is_active
                       /\ call.ret.success <=> before # {}
                /\ call.function = "record_view_count" =>
                       /\ call.at = "returned"
                       /\ UNCHANGED favorites
                       /\ Len(Appended) = 1
                       /\ Appended[1].video_id = call.video_id]_vars

\* An add found its video's row, a remove ran before the add's UPDATE, and
\* the add is about to reactivate the row
C22_Witness ==
    \E c \in DOMAIN connections :
        /\ connections[c].function = "add_favorite"
        /\ connections[c].at = "except"
        /\ \E r \in RowsOf(connections[c].video_id) : ~r.is_active
        /\ Returned("remove_favorite", connections[c].video_id) # {}
        /\ \E o \in Returned("add_favorite", connections[c].video_id) :
               ~connections[o].ret.reactivated

(***************************************************************************)
(* C23.  Duration codec: a string made of PT and then, in this order, any  *)
(* of <h>H, <m>M and <s>S, letters in either case, decodes to              *)
(* h*3600 + m*60 + s, a component left out counting 0; every other string  *)
(* (empty, wrong or missing prefix, days, stray characters, components     *)
(* out of order or repeated) decodes to 0.                                 *)
(***************************************************************************)
\* The grammar read from left to right: the magnitude before one of the
\* letters at position i of d, if there is one
ComponentAt(d, i, letters) ==
    LET stops == {j \in i..Len(d) : d[j] \notin Digits}
        stop == IF stops = {} THEN Len(d) + 1 ELSE Minimum(stops)
    IN  IF stop > i /\ stop <= Len(d) /\ d[stop] \in letters
        THEN [present |-> TRUE, next |-> stop + 1,
              magnitude |-> DecimalValue(SubSeq(d, i, stop - 1))]
        ELSE [present |-> FALSE, next |-> i, magnitude |-> 0]

Decomposed(d) ==
    LET h == ComponentAt(d, 3, {"H", "h"})
        m == ComponentAt(d, h.next, {"M", "m"})
        sec == ComponentAt(d, m.next, {"S", "s"})
    IN  [valid |-> /\ Len(d) >= 2
                   /\ d[1] \in {"P", "p"}
                   /\ d[2] \in {"T", "t"}
                   /\ sec.next = Len(d) + 1,
         hours |-> h.magnitude, minutes |-> m.magnitude, seconds |-> sec.magnitude]

C23_DurationCodec ==
    result.op = "parse_iso_duration" =>
        LET parts == Decomposed(result.duration)
        IN  IF parts.valid
            THEN result.ret = parts.hours * 3600 + parts.minutes * 60 + parts.seconds
            ELSE result.ret = 0

C23_Witness ==
    /\ result.op = "parse_iso_duration"
    /\ result.duration = <<"p", "T", "1", "2", "h", "3", "0", "M", "0", "7", "s">>
    /\ result.ret = 12 * 3600 + 30 * 60 + 7

(***************************************************************************)
(* C24.  Recency gate: within_days is true for every timestamp, malformed  *)
(* ones too, when days is absent; true when the timestamp does not read    *)
(* as ISO-8601; and otherwise true exactly when the timestamp is not       *)
(* before now - days, so that a timestamp one second older than now - days *)
(* is rejected.                                                            *)
(***************************************************************************)
C24_RecencyGate ==
    result.op = "within_days" =>
        IF result.days = None THEN result.ret
        ELSE IF result.timestamp.text # "iso" THEN result.ret
        ELSE LET age == now * 3600 - result.timestamp.instant
             IN  /\ result.ret <=> age <= result.days[1] * 86400
                 /\ age = result.days[1] * 86400 + 1 => ~result.ret

C24_Witness ==
    /\ result.op = "within_days"
    /\ result.days = Some(7)
    /\ result.timestamp.text = "iso"
    /\ now * 3600 - result.timestamp.instant = 7 * 86400 + 1
    /\ ~result.ret

(***************************************************************************)
(* C25.  Keyword deduplication: the keywords a collection uses and         *)
(* reports as keywords_used hold no two entries that are equal without     *)
(* regard to case; of the entries of the request that are so equal the     *)
(* first is kept, as it is spelled, and the kept ones stay in the order    *)
(* of the request; deduplicating the result again changes nothing; and     *)
(* the Collector is started exactly once for every kept keyword, in that   *)
(* order.                                                                  *)
(***************************************************************************)
\* The entries of the request that are not blank, without the blanks around
GivenKeywords(payload) ==
    SelectSeq([i \in DOMAIN payload.keyword_list |-> Strip(payload.keyword_list[i])],
              LAMBDA k : k # <<>>)
SameWithoutCase(a, b) == Lower(a) = Lower(b)
\* The places of the entries that no earlier entry equals without case
FirstPlaces(given) ==
    {i \in DOMAIN given : \A j \in DOMAIN given : j < i => ~SameWithoutCase(given[j], given[i])}
\* The queries of the first-page searches, one for every start of the Collector
Started(r) ==
    LET firsts == SelectSeq(r.calls, LAMBDA c : c.endpoint = "search" /\ c.pageToken = NoToken)
    IN  [i \in DOMAIN firsts |-> firsts[i].q]

C25_KeywordDeduplication ==
    (result.op = "collect" /\ result.status = 200 /\ GivenKeywords(result.payload) # <<>>) =>
        LET given == GivenKeywords(result.payload)
            used == result.ret.keywords_used
        IN  /\ \A i, j \in DOMAIN used : i # j => ~SameWithoutCase(used[i], used[j])
            /\ Len(used) = Cardinality(FirstPlaces(given))
            /\ \A k \in DOMAIN used :
                 \E i \in FirstPlaces(given) :
                    /\ Cardinality({j \in FirstPlaces(given) : j <= i}) = k
                    /\ used[k] = given[i]
            /\ KeywordListOf(used) = used
            /\ Started(result) = used

C25_Witness ==
    /\ result.op = "collect"
    /\ result.status = 200
    /\ result.payload.keyword_list = << <<"A", " ">>, <<"b">>, <<"a">> >>
    /\ result.ret.keywords_used = << <<"A">>, <<"b">> >>
    /\ Len(result.calls) > 2

(***************************************************************************)
(* C26.  Paging terminates and stops where stated: when the pages the      *)
(* cursors lead through come to one with no identities or with no cursor,  *)
(* the Collector comes to an end; it sends another search only when fewer  *)
(* than max_results candidates are accepted so far and the page before     *)
(* returned at least one identity and a cursor, and the cursor it sends    *)
(* is the one that page returned (the first search sends none).            *)
(***************************************************************************)
\* The page reached from the first one by following k cursors
RECURSIVE PageAfter(_, _)
PageAfter(pages, k) ==
    IF k = 0 THEN 1
    ELSE LET before == PageAfter(pages, k - 1)
         IN  IF pages[before].nextPageToken = NoToken THEN before
             ELSE pages[before].nextPageToken
ComesToAnEnd(pages) ==
    \E k \in 0..(Len(pages) - 1) :
        LET page == pages[PageAfter(pages, k)]
        IN  \/ page.nextPageToken = NoToken
            \/ \A i \in DOMAIN page.videoIds : page.videoIds[i] = NoId
C26_PagingTerminates ==
    /\ (result.op = "fetch_shorts" /\ result.at = "while" /\ ComesToAnEnd(result.pages))
         ~> (result.at # "while")
    /\ [][result'.sent # <<>> =>
            /\ result.at = "while"
            /\ result'.sent[1].endpoint = "search"
            /\ \A i \in 2..Len(result'.sent) : result'.sent[i].endpoint # "search"
            /\ IF result.sent = <<>> THEN result'.sent[1].pageToken = NoToken
               ELSE LET before == result.pages[IF result.sent[1].pageToken = NoToken
                                               THEN 1 ELSE result.sent[1].pageToken]
                    IN  /\ Len(result.collected) < result.max_results
                        /\ \E i \in DOMAIN before.videoIds : before.videoIds[i] # NoId
                        /\ before.nextPageToken # NoToken
                        /\ result'.sent[1].pageToken = before.nextPageToken]_vars

\* The Collector returned on a second page without identities whose cursor
\* leads back to the first page
C26_Witness ==
    /\ result.op = "fetch_shorts"
    /\ result.at = "returned"
    /\ Len(result.pages) = 2
    /\ Len(result.sent) = 1
    /\ result.sent[1].pageToken = 2
    /\ result.pages[2].nextPageToken = 1
    /\ result.pages[2].videoIds = <<NoId>>
(***************************************************************************)
(* C27.  The list fetch_shorts returns is sorted by view_count descending, *)
(* holds at most max_results candidates, each a duration-valid detail      *)
(* record of a page it fetched, and no duration-valid detail record of a   *)
(* fetched page with a view_count strictly greater than that of some       *)
(* returned candidate is left out of it.                                   *)
(***************************************************************************)
FetchedItems ==
    UNION {Range(result.pages[IF result.calls[k].pageToken = NoToken THEN 1
                              ELSE result.calls[k].pageToken].items) :
               k \in {j \in DOMAIN result.calls :
                          /\ result.calls[j].endpoint = "search"
                          /\ j < Len(result.calls)
                          /\ result.calls[j + 1].endpoint = "videos"}}

C27_SortBeforeTruncate ==
    (result.op = "fetch_shorts" /\ result.raised = "") =>
        LET valid == {CandidateOf(item) : item \in FetchedItems}
            shorts == {c \in valid : IsShort(c)}
            part == Range(result.part)
        IN  /\ Len(result.part) <= result.max_results
            /\ part \subseteq shorts
            /\ \A i \in 1..Len(result.part) - 1 :
                   result.part[i].view_count >= result.part[i + 1].view_count
            /\ \A c \in shorts \ part :
                   \A kept \in part : ~(c.view_count > kept.view_count)

(***************************************************************************)
(* C28.  A favourite that was removed and not added again is left out of   *)
(* tracking: a refresh counts no more favourites in total than are active, *)
(* does not look the removed video up upstream, and appends no snapshot    *)
(* for it, whatever the upstream returns.                                  *)
(***************************************************************************)
Deactivated == {r.video_id : r \in {q \in favorites : ~q.is_active}}
ActiveIds == {r.video_id : r \in {q \in favorites : q.is_active}}

C28_DeactivatedExcluded ==
    [][IsRefresh(result') =>
        /\ Counted(result') => TotalOf(result') <= Cardinality(ActiveIds)
        /\ \A v \in Deactivated :
             /\ v \notin LookedUp(result')
             /\ \A i \in DOMAIN Appended : Appended[i].video_id # v]_vars

\* What does hold: no refresh counts or looks up a removed video, and
\* POST /favorites/refresh, which reads the answer by the videos it asked
\* for, appends no snapshot for one.
DeactivatedNeverAskedFor ==
    [][IsRefresh(result') =>
        /\ Counted(result') => TotalOf(result') <= Cardinality(ActiveIds)
        /\ \A v \in Deactivated :
             /\ v \notin LookedUp(result')
             /\ result'.op = "app_refresh" =>
                    \A i \in DOMAIN Appended : Appended[i].video_id # v]_vars

(***************************************************************************)
(* C29.  A collection asked with max_results 0, or with none, is not       *)
(* refused for its max_results: it is carried out with max_results 20.     *)
(* The error "max_results must be between 1 and 10000" answers exactly the *)
(* requests that name keywords and give a max_results other than 0 that is *)
(* below 1 or above 10000.                                                 *)
(***************************************************************************)
RefusedForMaxResults(r) ==
    r.status = 400 /\ r.ret.error = "max_results must be between 1 and 10000"

C29_MaxResultsCoercion ==
    [][result'.op = "collect" =>
        LET m == result'.payload.max_results
        IN  /\ m \in {None, Some(0)} =>
                 /\ ~RefusedForMaxResults(result')
                 /\ MaxResultsOf(result'.payload) = DefaultMaxResults
                 /\ result'.status # 400 =>
                        /\ result'.max_results = DefaultMaxResults
                        /\ \A i \in DOMAIN result'.parts :
                               Len(result'.parts[i]) <= DefaultMaxResults
                 /\ result'.status = 400 =>
                        NoKeywords(result'.payload) \/ NegativeDays(result'.payload)
            /\ RefusedForMaxResults(result') <=>
                 /\ ~NoKeywords(result'.payload)
                 /\ m \notin {None, Some(0)}
                 /\ m[1] < 1 \/ m[1] > MaxResultsLimit]_vars

C29_Witness ==
    /\ result.op = "collect"
    /\ result.status = 200
    /\ result.payload.max_results = Some(0)
    /\ result.max_results = DefaultMaxResults
    /\ result.ret.total > 0
    /\ DATA_FILE.records # <<>>

(***************************************************************************)
(* C30.  What a favourite's row holds besides is_active and created_at     *)
(* (the title stands for the title, the channel's identity and name and    *)
(* the thumbnail, all written by the INSERT alone) is what its first       *)
(* creation wrote: a refresh and record_view_count leave every row as it   *)
(* was, remove_favorite changes at most the is_active of the row of its    *)
(* video, and an add_favorite that reactivates changes only is_active and  *)
(* created_at of the row of its video, also when it is given another       *)
(* title.                                                                  *)
(***************************************************************************)
RowOf(rows, v) == CHOOSE r \in rows : r.video_id = v
OthersKept(v) ==
    /\ {r.video_id : r \in favorites'} = {r.video_id : r \in favorites}
    /\ Cardinality(favorites') = Cardinality(favorites)
    /\ {r \in favorites' : r.video_id # v} = {r \in favorites : r.video_id # v}

C30_MetadataFrozen ==
    [][/\ (IsRefresh(result') \/ result'.op = "record_view_count")
            => favorites' = favorites
       /\ result'.op = "remove_favorite" =>
            /\ OthersKept(result'.video_id)
            /\ \A r \in RowsOf(result'.video_id) :
                   RowOf(favorites', r.video_id) = [r EXCEPT !.is_active = FALSE]
       /\ (result'.op = "add_favorite" /\ RowsOf(result'.video_id) # {}) =>
            /\ "reactivated" \in DOMAIN result'.ret
            /\ OthersKept(result'.video_id)
            /\ \A r \in RowsOf(result'.video_id) :
                   RowOf(favorites', r.video_id) =
                       [r EXCEPT !.is_active = TRUE, !.created_at = now]
       /\ \A r \in favorites : \E kept \in favorites' :
               kept.video_id = r.video_id /\ kept.title = r.title]_vars

C30_Witness ==
    /\ result.op = "add_favorite"
    /\ "reactivated" \in DOMAIN result.ret
    /\ now > 0
    /\ view_history # <<>>
    /\ \E r \in favorites :
          /\ r.video_id = result.video_id
          /\ r.title # result.title
          /\ r.is_active
          /\ r.created_at = now

====
